---- MODULE Spec2Model ----
(***************************************************************************)
(* The MCP JSON-RPC request handler of the Lambda MCP server               *)
(* (src/assets/server/mcp_server/mcp_handler.py, class MCPLambdaHandler):  *)
(* the registries, the session store behind it, the request-scoped         *)
(* session binding and handle_request, step by step.                       *)
(*                                                                         *)
(* Python values are modelled as strings and records: None is the string   *)
(* "None"; a dict key that is absent reads as None through .get().         *)
(***************************************************************************)
EXTENDS Integers, Sequences, FiniteSets, TLC

None == "None"

\* A JSON array or object found where a hashable dict key is expected.
Unhashable == "<unhashable>"

\* ------------------------------------------------------------------ bounds

\* How many sessions create_session may hand out in one run.
MaxSessions == 2

\* How many session calls (get_session / set_session) one implementation makes.
MaxImplCalls == 1

\* Execution contexts (threads of one process), each with its own view of
\* the context variable current_session_id.
Contexts == {"ctx1", "ctx2"}

MainContext == "ctx1"

\* ------------------------------------------------------------ session ids

\* The n-th id handed out by create_session: a fresh token (a uuid in a
\* durable store), never equal to an earlier one.
NewSessionId(n) == "sid-" \o ToString(n)

\* An id no create_session call ever returns (a client's made-up token).
GhostId == "sid-ghost"

IssuedIds(st) == {NewSessionId(n) : n \in 1..st.issued}

Truthy(v) == v # None /\ v # ""

\* ---------------------------------------------------------- session store
\* The SessionStore interface: create / get / update / delete, with a
\* durable variant (a table id -> payload) and the no-op variant.

EmptyPayload == "{}"

Payloads == {EmptyPayload, "{k:v}"}

NewStore(kind) == [kind |-> kind, table |-> [i \in {} |-> EmptyPayload], issued |-> 0]

store_create_session(st) ==
    LET id == NewSessionId(st.issued + 1) IN
    [id    |-> id,
     store |-> [st EXCEPT !.issued = @ + 1,
                          !.table = IF st.kind = "durable"
                                    THEN @ @@ (id :> EmptyPayload)
                                    ELSE @]]

store_get_session(st, id) ==
    IF st.kind = "noop"
    THEN None
    ELSE IF id \in DOMAIN st.table THEN st.table[id] ELSE None

store_update_session(st, id, data) ==
    IF st.kind = "durable" /\ id \in DOMAIN st.table
    THEN [ok |-> TRUE, store |-> [st EXCEPT !.table[id] = data]]
    ELSE [ok |-> FALSE, store |-> st]

store_delete_session(st, id) ==
    IF st.kind = "durable" /\ id \in DOMAIN st.table
    THEN [ok    |-> TRUE,
          store |-> [st EXCEPT !.table =
                        [i \in (DOMAIN st.table) \ {id} |-> st.table[i]]]]
    ELSE [ok |-> FALSE, store |-> st]

\* Fault: every store is taken for the no-op store.
AnyStoreIsNoOp(st) == TRUE

\* isinstance(self.session_store, NoOpSessionStore)
IsNoOpSessionStore(st) == st.kind = "noop"

\* A durable backend's call can fail (a network or service error); the
\* no-op store never raises.
StoreFaults(st) == IF st.kind = "durable" THEN {FALSE, TRUE} ELSE {FALSE}

StoreErrorText == "store failure"

\* ---------------------------------------------------------- HTTP events

\* str.lower() on the header names a client sends.
lower(k) ==
    CASE k = "Content-Type"   -> "content-type"
      [] k = "Mcp-Session-Id" -> "mcp-session-id"
      [] OTHER                -> k

\* {k.lower(): v for k, v in headers.items()}: a later pair wins.
RECURSIVE LowerHeaders(_)
LowerHeaders(h) ==
    IF h = <<>> THEN [k \in {} |-> None]
    ELSE LET rest == LowerHeaders(SubSeq(h, 1, Len(h) - 1))
             last == h[Len(h)]
             key  == lower(last[1])
         IN [k \in (DOMAIN rest) \cup {key} |->
                IF k = key THEN last[2] ELSE rest[k]]

\* dict.get(key): None when the key is absent.
HeaderGet(headers, key) ==
    IF key \in DOMAIN headers THEN headers[key] ELSE None

NoParams == [kind |-> "absent", name |-> None, arguments |-> None, uri |-> None,
             values |-> <<>>]

Params(name, arguments, uri) ==
    [kind |-> "object", name |-> name, arguments |-> arguments, uri |-> uri,
     values |-> <<>>]

\* params of a call whose arguments object holds the given pairs
\* <<name, value>>, in the order the client wrote them.
Arguments(name, values) == [Params(name, "dict", None) EXCEPT !.values = values]

\* params that is not a JSON object: the request model rejects it.
InvalidParams == [kind |-> "invalid", name |-> None, arguments |-> None, uri |-> None,
                  values |-> <<>>]

\* Fault: params is tested for presence, so that {} counts as given.
ParamsPresent(p) == p.kind = "object"

\* Python truthiness of request.params: None and {} are falsy.
ParamsTruthy(p) ==
    p.kind = "object" /\ (p.name # None \/ p.arguments # None \/ p.uri # None)

\* params.get(key)
ParamsGet(p, key) ==
    CASE key = "name"      -> p.name
      [] key = "arguments" -> p.arguments
      [] key = "uri"       -> p.uri

RawBody(kind) ==
    [kind |-> kind, jsonrpc |-> None, id |-> None, method |-> None,
     params |-> NoParams]

ObjectBody(jsonrpc, id, method, params) ==
    [kind |-> "object", jsonrpc |-> jsonrpc, id |-> id, method |-> method,
     params |-> params]

RequestIds == {None, "1"}

CallParams ==
    {NoParams, Params(None, None, None)}
    \cup {Params(n, "dict", None) : n \in {"memory.store", "memory.recall", "unknown_tool", Unhashable}}
    \cup {Params(None, "dict", None), Params("memory.store", None, None),
          Params("memory.store", "nondict", None)}

GetParams ==
    {NoParams, Params(None, None, None), Params("memory.decide", None, None),
     Params("memory.decide", "nondict", None), Params("unknown_prompt", "dict", None),
     Params(Unhashable, "dict", None)}

ReadParams ==
    {NoParams, Params("x", None, None), Params(None, None, "")}
    \cup {Params(None, None, u) : u \in {"res://dynamic", "res://static", "res://unknown", Unhashable}}

\* Bodies that pass the envelope check.
EnvelopeBodies ==
    {ObjectBody("2.0", i, m, NoParams) :
        i \in RequestIds,
        m \in {"initialize", "ping", "tools/list", "prompts/list", "resources/list",
               "foo/bar"}}
    \cup {ObjectBody("2.0", i, "ping", InvalidParams) : i \in RequestIds}
    \cup {ObjectBody("2.0", i, "tools/call", p) : i \in RequestIds, p \in CallParams}
    \cup {ObjectBody("2.0", i, "prompts/get", p) : i \in RequestIds, p \in GetParams}
    \cup {ObjectBody("2.0", i, "resources/read", p) : i \in RequestIds, p \in ReadParams}

\* Bodies that fail before or at the envelope check.
BrokenBodies ==
    {RawBody(k) : k \in {"missing", "null", "garbage", "array"}}
    \cup {ObjectBody("1.0", i, "ping", NoParams) : i \in RequestIds}
    \cup {ObjectBody("2.0", i, None, NoParams) : i \in RequestIds}

Bodies == EnvelopeBodies \cup BrokenBodies

\* A few bodies of every kind, for the requests that are answered before
\* the body is read.
FewBodies ==
    {RawBody("missing"), RawBody("garbage"),
     ObjectBody("2.0", "1", "initialize", NoParams),
     ObjectBody("2.0", "1", "ping", NoParams),
     ObjectBody("2.0", "1", "tools/call", Params("memory.store", "dict", None))}

HeaderCases == {"lower", "mixed"}

ContentTypeName(case) == IF case = "lower" THEN "content-type" ELSE "Content-Type"

SessionIdName(case) == IF case = "lower" THEN "mcp-session-id" ELSE "Mcp-Session-Id"

Headers(case, ctype, sid) ==
    (IF ctype # None THEN << <<ContentTypeName(case), ctype>> >> ELSE <<>>)
    \o (IF sid # None THEN << <<SessionIdName(case), sid>> >> ELSE <<>>)

\* "headers": null, as API Gateway sends for a request without headers.
NullHeaders == << <<None, None>> >>

Event(headers, verb, body) ==
    [headers |-> headers, httpMethod |-> verb, body |-> body]

NoEvent == Event(<<>>, None, RawBody("missing"))

\* The mcp-session-id values a client can send: none, an empty one, a
\* made-up one, or one an earlier initialize returned.
SidValues(st) == {None, "", GhostId} \cup IssuedIds(st)

Events(st) ==
    {Event(Headers(c, "application/json", s), "POST", b) :
        c \in HeaderCases, s \in SidValues(st), b \in Bodies}
    \cup {Event(Headers(c, t, s), v, b) :
        c \in HeaderCases, t \in {"text/plain", None}, s \in SidValues(st),
        v \in {"POST", "DELETE"}, b \in FewBodies}
    \cup {Event(Headers(c, "application/json", s), "DELETE", b) :
        c \in HeaderCases, s \in SidValues(st), b \in FewBodies}
    \cup {Event(NullHeaders, v, b) : v \in {"POST", "DELETE"}, b \in FewBodies}

\* ------------------------------------------------------------ registries

\* A Python dict: the pairs <<key, value>> in insertion order, keys unique.
EmptyDict == <<>>

DictKeys(d) == {d[i][1] : i \in DOMAIN d}

DictGet(d, key) == d[CHOOSE i \in DOMAIN d : d[i][1] = key][2]

\* Fault: a list of pairs in place of the dict.
DictAppend(d, key, value) == Append(d, <<key, value>>)

\* d[key] = value: a new key is appended, an existing key keeps its place.
DictPut(d, key, value) ==
    IF key \in DictKeys(d)
    THEN [i \in DOMAIN d |-> IF d[i][1] = key THEN <<key, value>> ELSE d[i]]
    ELSE Append(d, <<key, value>>)

\* list(d.values())
DictValues(d) == [i \in DOMAIN d |-> d[i][2]]

\* The callables the application registers: their __name__, the first
\* paragraph of their docstring and their declared parameter types.
FuncDefs ==
    [memory_store  |-> [name  |-> "memory_store",
                        doc   |-> "Stores a memory",
                        hints |-> << <<"content", [k |-> "str"]>> >>],
     memory_recall |-> [name  |-> "memory_recall",
                        doc   |-> "Recalls memory",
                        hints |-> << <<"context", [k |-> "str"]>> >>],
     memory_decide |-> [name  |-> "memory_decide",
                        doc   |-> "Generates prompts",
                        hints |-> <<>>],
     dynamic_text  |-> [name  |-> "dynamic_text",
                        doc   |-> "",
                        hints |-> <<>>],
     set_mode      |-> [name  |-> "set_mode",
                        doc   |-> "Sets the mode",
                        hints |-> << <<"mode", [k |-> "enum"]>>,
                                     <<"note", [k |-> "str"]>> >>],
     \* def scale(n: int, x: float, flag: bool, label: str) -> str
     scale         |-> [name  |-> "scale",
                        doc   |-> "Scales",
                        hints |-> << <<"n", [k |-> "int"]>>,
                                     <<"x", [k |-> "float"]>>,
                                     <<"flag", [k |-> "bool"]>>,
                                     <<"label", [k |-> "str"]>>,
                                     <<"return", [k |-> "str"]>> >>],
     \* def configure(mode: Mode, table: Dict[str, int],
     \*               rows: List[Dict[str, Mode]]) -> bool
     configure     |-> [name  |-> "configure",
                        doc   |-> "Configures",
                        hints |-> << <<"mode", [k |-> "enum"]>>,
                                     <<"table", [k |-> "Dict",
                                                 args |-> <<[k |-> "str"], [k |-> "int"]>>]>>,
                                     <<"rows", [k |-> "List",
                                                args |-> <<[k |-> "Dict",
                                                            args |-> <<[k |-> "str"],
                                                                       [k |-> "enum"]>>]>>]>>,
                                     <<"return", [k |-> "bool"]>> >>],
     \* def describe(bare: dict, any_dict: Dict, any_list: List,
     \*              names: list[str], other: Optional[int])
     describe      |-> [name  |-> "describe",
                        doc   |-> "",
                        hints |-> << <<"bare", [k |-> "dict"]>>,
                                     <<"any_dict", [k |-> "Dict"]>>,
                                     <<"any_list", [k |-> "List"]>>,
                                     <<"names", [k |-> "list", args |-> <<[k |-> "str"]>>]>>,
                                     <<"other", [k |-> "Optional",
                                                 args |-> <<[k |-> "int"]>>]>> >>]]

\* The members of Mode, in definition order.
Mode == <<"fast", "slow">>

\* Lines 204-213, the schema prompt() gives a parameter type: the four
\* plain types, and string for every other.
prompt_type_schema(param_type) ==
    CASE param_type.k = "str"   -> [type |-> "string"]
      [] param_type.k = "int"   -> [type |-> "integer"]
      [] param_type.k = "float" -> [type |-> "number"]
      [] param_type.k = "bool"  -> [type |-> "boolean"]
      [] OTHER                  -> [type |-> "string"]

RECURSIVE get_type_schema(_)

\* Lines 150-172. typing.get_args gives the parameters of a generic and
\* none for a bare one; typing.get_origin gives dict or list for
\* typing.Dict, typing.List and a parameterized dict[...] or list[...],
\* and None for a class, the bare dict and list among them.
get_type_schema(type_hint) ==
    LET args == IF "args" \in DOMAIN type_hint THEN type_hint.args ELSE <<>>
        origin == CASE type_hint.k \in {"Dict", "List"} ->
                          IF type_hint.k = "Dict" THEN "dict" ELSE "list"
                    [] type_hint.k \in {"dict", "list"} /\ args # <<>> -> type_hint.k
                    [] type_hint.k = "Optional" -> "Union"
                    [] OTHER -> None
    IN CASE type_hint.k = "int"   -> [type |-> "integer"]
         [] type_hint.k = "float" -> [type |-> "number"]
         [] type_hint.k = "bool"  -> [type |-> "boolean"]
         [] type_hint.k = "str"   -> [type |-> "string"]
         [] type_hint.k = "enum"  -> [type |-> "string", enum |-> Mode]
         [] OTHER ->
               IF origin = None THEN [type |-> "string"]
               ELSE IF origin = "dict"
               THEN [type |-> "object",
                     additionalProperties |->
                         IF Len(args) > 1 THEN get_type_schema(args[2])
                         ELSE [type |-> "string"]]
               ELSE IF origin = "list"
               THEN [type |-> "array",
                     items |-> IF args # <<>> THEN get_type_schema(args[1])
                               ELSE [type |-> "string"]]
               ELSE [type |-> "string"]

\* Fault: the type of the return value stays among the hints.
HintsWithReturn(func) == FuncDefs[func].hints

\* hints.pop("return", ...): the declared types without that of the
\* return value.
Parameters(func) ==
    SelectSeq(FuncDefs[func].hints, LAMBDA hint : hint[1] # "return")

\* Lines 174-176 and 181: the schema of every declared parameter under its
\* name, and every name required, in the order of declaration.
InputSchema(hints) ==
    [type       |-> "object",
     properties |-> [i \in DOMAIN hints |-> <<hints[i][1], get_type_schema(hints[i][2])>>],
     required   |-> [i \in DOMAIN hints |-> hints[i][1]]]

\* Lines 203-220: the same for a prompt, with prompt()'s own type table.
PromptInputSchema(hints) ==
    [type       |-> "object",
     properties |-> [i \in DOMAIN hints |-> <<hints[i][1], prompt_type_schema(hints[i][2])>>],
     required   |-> [i \in DOMAIN hints |-> hints[i][1]]]

Descriptor(name, description, func, inputSchema) ==
    [name        |-> IF name # None THEN name ELSE FuncDefs[func].name,
     description |-> IF description # None THEN description ELSE FuncDefs[func].doc,
     inputSchema |-> inputSchema]

EmptyRegistry ==
    [tools |-> EmptyDict, tool_implementations |-> EmptyDict,
     prompts |-> EmptyDict, prompt_implementations |-> EmptyDict,
     resources |-> EmptyDict]

\* Fault: a registered name is kept (setdefault in place of assignment).
tool_keeps_first(reg, name, description, func) ==
    LET d == Descriptor(name, description, func, InputSchema(Parameters(func))) IN
    IF d.name \in DictKeys(reg.tools)
    THEN reg
    ELSE [reg EXCEPT !.tools = DictPut(@, d.name, d),
                     !.tool_implementations = DictPut(@, d.name, func)]

\* @mcp.tool(name=..., description=...) applied to func
tool(reg, name, description, func) ==
    LET d == Descriptor(name, description, func, InputSchema(Parameters(func))) IN
    [reg EXCEPT !.tools = DictPut(@, d.name, d),
                !.tool_implementations = DictPut(@, d.name, func)]

\* Fault: the descriptor is stored and the callable is not.
prompt_descriptor_only(reg, name, description, func) ==
    LET d == Descriptor(name, description, func, PromptInputSchema(Parameters(func))) IN
    [reg EXCEPT !.prompts = DictPut(@, d.name, d)]

\* @mcp.prompt(name=..., description=...) applied to func
prompt(reg, name, description, func) ==
    LET d == Descriptor(name, description, func, PromptInputSchema(Parameters(func))) IN
    [reg EXCEPT !.prompts = DictPut(@, d.name, d),
                !.prompt_implementations = DictPut(@, d.name, func)]

Resource(uri, name, mime_type, content, content_func) ==
    [uri |-> uri, name |-> name, mimeType |-> mime_type, content |-> content,
     content_func |-> content_func]

\* mcp.add_resource(resource): a static resource with literal content
add_resource(reg, res) ==
    [reg EXCEPT !.resources = DictPut(@, res.uri, res)]

\* @mcp.resource(uri, name, mime_type=...) applied to func
resource(reg, uri, name, mime_type, func) ==
    [reg EXCEPT !.resources =
        DictPut(@, uri, Resource(uri, name,
                             IF mime_type # None THEN mime_type ELSE "text/plain",
                             "", func))]

\* The registrations of server.py, run at import time.
ServerRegistry ==
    prompt(
      tool(
        tool(EmptyRegistry, "memory.store", "Stores a memory to enhance future conversations", "memory_store"),
        "memory.recall", "Recalls memory to be used as relevant contextual information", "memory_recall"),
      "memory.decide", "Generates prompts to help the LLM decide", "memory_decide")

\* A deployment with one tool and two resources, one of each kind.
ResourceRegistry ==
    add_resource(
      resource(
        tool(EmptyRegistry, "memory.store", None, "memory_store"),
        "res://dynamic", "dynamic", None, "dynamic_text"),
      Resource("res://static", "static", "text/markdown", "static text", None))

ColdStarts == {ServerRegistry, ResourceRegistry}

\* ------------------------------------------------------ content normalizer

Str(s) == [t |-> "str", v |-> s, items |-> <<>>]

TextContent(text) == [type |-> "text", text |-> text]

ErrorContent(text) == [type |-> "error", text |-> text]

\* fastmcp's ToolResult with the given content blocks
ToolResult(blocks) == [t |-> "ToolResult", v |-> "", items |-> blocks]

PromptMessage(role, text) ==
    [t |-> "PromptMessage", v |-> role, items |-> <<TextContent(text)>>]

List(items) == [t |-> "list", v |-> "", items |-> items]

\* A bytes object: its bytes, each in 0..255, in order.
Bytes(bs) == [t |-> "bytes", v |-> "", items |-> bs]

ImageContent(data, mimeType) == [type |-> "image", data |-> data, mimeType |-> mimeType]

\* bytes.startswith(prefix)
startswith(bs, prefix) ==
    /\ Len(bs) >= Len(prefix)
    /\ SubSeq(bs, 1, Len(prefix)) = prefix

\* Fault: the slice counts its start from one.
SliceFromOne(bs, lo, hi) ==
    SubSeq(bs, lo, IF hi < Len(bs) THEN hi ELSE Len(bs))

\* The slice bs[lo:hi] of Python, which is cut short at the end of bs.
Slice(bs, lo, hi) ==
    SubSeq(bs, lo + 1, IF hi < Len(bs) THEN hi ELSE Len(bs))

\* The signatures lines 294-300 look for.
Magic ==
    [jpeg |-> <<255, 216, 255>>,
     png |-> <<137, 80, 78, 71, 13, 10, 26, 10>>,
     gif87a |-> <<71, 73, 70, 56, 55, 97>>,
     gif89a |-> <<71, 73, 70, 56, 57, 97>>,
     riff |-> <<82, 73, 70, 70>>,
     webp |-> <<87, 69, 66, 80>>]

\* Lines 293-300: the mime type the first bytes stand for.
SniffMimeType(bs) ==
    IF startswith(bs, Magic.jpeg) THEN "image/jpeg"
    ELSE IF startswith(bs, Magic.png) THEN "image/png"
    ELSE IF startswith(bs, Magic.gif87a) \/ startswith(bs, Magic.gif89a) THEN "image/gif"
    ELSE IF startswith(bs, Magic.riff) /\ Slice(bs, 8, 12) = Magic.webp THEN "image/webp"
    ELSE "application/octet-stream"

\* The base64 alphabet of RFC 4648, digit 0 first.
B64Alphabet ==
    <<"A", "B", "C", "D", "E", "F", "G", "H", "I", "J", "K", "L", "M",
      "N", "O", "P", "Q", "R", "S", "T", "U", "V", "W", "X", "Y", "Z",
      "a", "b", "c", "d", "e", "f", "g", "h", "i", "j", "k", "l", "m",
      "n", "o", "p", "q", "r", "s", "t", "u", "v", "w", "x", "y", "z",
      "0", "1", "2", "3", "4", "5", "6", "7", "8", "9", "+", "/">>

RECURSIVE b64encode(_)

\* base64.b64encode(bs).decode("utf-8"), one character per element: three
\* bytes give four digits, and a last group of one or two bytes is padded.
b64encode(bs) ==
    LET B64Digit(n) == B64Alphabet[n + 1] IN
        IF bs = <<>> THEN <<>>
        ELSE IF Len(bs) = 1 THEN
            <<B64Digit(bs[1] \div 4), B64Digit((bs[1] % 4) * 16), "=", "=">>
        ELSE IF Len(bs) = 2 THEN
            <<B64Digit(bs[1] \div 4), B64Digit((bs[1] % 4) * 16 + bs[2] \div 16),
              B64Digit((bs[2] % 16) * 4), "=">>
        ELSE
            <<B64Digit(bs[1] \div 4), B64Digit((bs[1] % 4) * 16 + bs[2] \div 16),
              B64Digit((bs[2] % 16) * 4 + bs[3] \div 64), B64Digit(bs[3] % 64)>>
            \o b64encode(SubSeq(bs, 4, Len(bs)))

\* An int object.
Integer(n) == [t |-> "int", v |-> "", items |-> <<n>>]

\* A bool object; bool is a subclass of int, True being 1 and False 0.
Bool(b) == [t |-> "bool", v |-> "", items |-> <<IF b THEN 1 ELSE 0>>]

\* Fault: the text names the type of the value.
type_name(value) == value.t

\* str(value), lines 304 and 425: the string itself, the decimal numeral of
\* an int, True or False, None, and for a value of another type a text
\* that names the type.
str(value) ==
    CASE value.t = "str" -> value.v
      [] value.t = "int" -> ToString(value.items[1])
      [] value.t = "bool" -> IF value.items[1] = 1 THEN "True" ELSE "False"
      [] value.t = "NoneType" -> "None"
      [] OTHER -> value.t

Converted(content) == [ok |-> TRUE, content |-> content, exc |-> ""]

Raised(text) == [ok |-> FALSE, content |-> <<>>, exc |-> text]

\* The member values of Mode, the Enum class a callable may declare for a
\* parameter.
EnumValues == {Mode[i] : i \in DOMAIN Mode}

\* Fault: the arguments are passed on as they came.
pass_arguments(func, values) == Converted(values)

\* Lines 378-385: the arguments object converted for the call of func, pair
\* by pair. A value whose parameter is declared as an Enum class becomes
\* the member with that value, and Enum's lookup raises ValueError when
\* there is none; every other value stays as it is.
convert_arguments(func, values) ==
    LET hints == FuncDefs[func].hints
        IsEnum(arg_name) ==
            \E i \in DOMAIN hints : hints[i][1] = arg_name /\ hints[i][2].k = "enum"
        Bad == {i \in DOMAIN values :
                   IsEnum(values[i][1])
                   /\ ~(values[i][2].t = "str" /\ values[i][2].v \in EnumValues)}
    IN IF Bad # {}
       THEN Raised("is not a valid Mode")
       ELSE Converted([i \in DOMAIN values |->
                         IF IsEnum(values[i][1])
                         THEN <<values[i][1], [values[i][2] EXCEPT !.t = "enum"]>>
                         ELSE values[i]])

RECURSIVE _convert_result_to_content(_)
RECURSIVE ConvertAll(_)

\* Fault: the output of each element replaces that of the one before.
ConvertLastOnly(items) ==
    IF items = <<>> THEN Converted(<<>>)
    ELSE _convert_result_to_content(items[Len(items)])

\* The list comprehension of _convert_result_to_content: each element
\* converted in order, an exception in one ending the whole conversion.
ConvertAll(items) ==
    IF items = <<>> THEN Converted(<<>>)
    ELSE LET head == _convert_result_to_content(Head(items))
             rest == ConvertAll(Tail(items))
         IN IF ~head.ok THEN head
            ELSE IF ~rest.ok THEN rest
            ELSE Converted(head.content \o rest.content)

_convert_result_to_content(result) ==
    CASE result.t = "list" -> ConvertAll(result.items)
      [] result.t = "ToolResult" ->
            IF result.items = <<>> THEN Raised("list index out of range")
            ELSE Converted(<<result.items[1]>>)
      [] result.t = "PromptMessage" ->
            Converted(<<[role |-> result.v, content |-> result.items[1]]>>)
      [] result.t = "bytes" ->
            Converted(<<ImageContent(b64encode(result.items), SniffMimeType(result.items))>>)
      [] OTHER -> Converted(<<TextContent(str(result))>>)

\* -------------------------------------------------------------- responses

NoResult == [kind |-> None, data |-> <<>>]

NoError == [code |-> 0, message |-> <<>>]

Result(kind, data) == [kind |-> kind, data |-> data]

JSONRPCError(code, message) == [code |-> code, message |-> message]

JSONRPCResponse(id, result, error, errorContent) ==
    [jsonrpc |-> "2.0", id |-> id, result |-> result, error |-> error,
     errorContent |-> errorContent]

NoBody == [jsonrpc |-> None, id |-> None, result |-> NoResult, error |-> NoError,
           errorContent |-> <<>>]

ResponseHeaders(session_id) ==
    [ContentType  |-> "application/json",
     MCPVersion   |-> "0.6",
     MCPSessionId |-> IF Truthy(session_id) THEN session_id ELSE None]

\* {"statusCode": n}: the answer to DELETE, without headers or body.
BareResponse(status) ==
    [statusCode |-> status,
     headers    |-> [ContentType |-> None, MCPVersion |-> None, MCPSessionId |-> None],
     body       |-> NoBody]

NoResponse == BareResponse(0)

\* Fault: JSON-RPC errors travel with HTTP 200.
ErrorsAnsweredOk(error_code) == 200

_error_code_to_http_status(error_code) ==
    CASE error_code = -32700 -> 400
      [] error_code = -32600 -> 400
      [] error_code = -32601 -> 404
      [] error_code = -32602 -> 400
      [] error_code = -32603 -> 500
      [] OTHER                -> 500

\* Fault: the per-call status is dropped.
ErrorResponseFromTable(code, message, request_id, error_content, session_id, status_code) ==
    [statusCode |-> _error_code_to_http_status(code),
     headers    |-> ResponseHeaders(session_id),
     body       |-> JSONRPCResponse(request_id, NoResult,
                                    JSONRPCError(code, message), error_content)]

\* status_code 0 stands for the default None.
_create_error_response(code, message, request_id, error_content, session_id, status_code) ==
    [statusCode |-> IF status_code # 0 THEN status_code
                    ELSE _error_code_to_http_status(code),
     headers    |-> ResponseHeaders(session_id),
     body       |-> JSONRPCResponse(request_id, NoResult,
                                    JSONRPCError(code, message), error_content)]

_create_success_response(result, request_id, session_id) ==
    [statusCode |-> 200,
     headers    |-> ResponseHeaders(session_id),
     body       |-> JSONRPCResponse(request_id, result, NoError, <<>>)]

\* ------------------------------------------------------------------ state

VARIABLES
    session_store,           \* self.session_store: kind, table, ids issued
    tools,                   \* self.tools: name -> descriptor
    tool_implementations,    \* self.tool_implementations: name -> callable
    prompts,                 \* self.prompts
    prompt_implementations,  \* self.prompt_implementations
    resources,               \* self.resources: uri -> resource
    current_session_id,      \* the context variable, one value per context
    pc,                      \* where each context's handle_request call stands
    event,                   \* the event each context is handling
    request_id,              \* handle_request's local request_id
    session_id,              \* handle_request's local session_id
    response,                \* the value handle_request returns
    call,                    \* the implementation call in progress
    trace,                   \* what the request did: branch taken, callables
                             \* invoked, the store and history at entry
    history,                 \* what has happened so far: the ids whose
                             \* DELETE was answered 204, the id returned by
                             \* initialize when that was the last request,
                             \* and what was last registered under each
                             \* name since the handler was built
    helper                   \* a direct call of one of the handler's helper
                             \* methods: its name, arguments and outcome

registries == <<tools, tool_implementations, prompts, prompt_implementations, resources>>

locals == <<event, request_id, session_id, response, call, trace>>

vars == <<session_store, tools, tool_implementations, prompts,
          prompt_implementations, resources, current_session_id, pc, event,
          request_id, session_id, response, call, trace, history, helper>>

NoOutcome == [kind |-> None, value |-> [t |-> None, v |-> "", items |-> <<>>], text |-> ""]

NoCall == [kind |-> None, name |-> None, func |-> None, args |-> <<>>, calls |-> 0,
           seen |-> None, got |-> None, ret |-> <<>>, store_calls |-> <<>>,
           out |-> NoOutcome]

NoRegistrations == [tools |-> <<>>, prompts |-> <<>>, resources |-> <<>>]

NoHistory == [deleted |-> {}, last_initialized |-> None, registered |-> NoRegistrations]

\* No helper method has been called directly.
NoHelperCall == [name |-> None, args |-> <<>>, ret |-> <<>>]

EntryTrace(route, st, h) ==
    [route |-> route, invoked |-> <<>>, pre |-> st, pre_deleted |-> h.deleted,
     fresh |-> h.last_initialized]

NoTrace == EntryTrace(None, NewStore("noop"), NoHistory)

\* MCPLambdaHandler(name, session_store=...) followed by the module's
\* registrations; no request has been handled yet.
Init ==
    /\ \E kind \in {"noop", "durable"} : session_store = NewStore(kind)
    /\ \E reg \in ColdStarts :
          /\ tools = reg.tools
          /\ tool_implementations = reg.tool_implementations
          /\ prompts = reg.prompts
          /\ prompt_implementations = reg.prompt_implementations
          /\ resources = reg.resources
    /\ current_session_id = [c \in Contexts |-> None]
    /\ pc = [c \in Contexts |-> "idle"]
    /\ event = [c \in Contexts |-> NoEvent]
    /\ request_id = [c \in Contexts |-> None]
    /\ session_id = [c \in Contexts |-> None]
    /\ response = [c \in Contexts |-> NoResponse]
    /\ call = [c \in Contexts |-> NoCall]
    /\ trace = [c \in Contexts |-> NoTrace]
    /\ history = NoHistory
    /\ helper = NoHelperCall

\* ------------------------------------------------- handle_request: helpers

\* Fault: a module-level global in place of the ContextVar.
GlobalSet(cv, c, v) == [x \in DOMAIN cv |-> v]

\* ContextVar.set in context c: the other contexts keep their own value.
ContextVar_set(cv, c, v) == [cv EXCEPT ![c] = v]

\* Fault: every context reads the binding of the first.
GetOfFirstContext(cv, c) == cv["ctx1"]

\* ContextVar.get in context c
ContextVar_get(cv, c) == cv[c]

\* json.loads(event["body"]) and what follows on the parsed value
BodyOutcome(body) ==
    CASE body.kind = "missing" -> "KeyError"
      [] body.kind = "null"    -> "TypeError"
      [] body.kind = "garbage" -> "JSONDecodeError"
      [] body.kind = "array"   -> "list"
      [] OTHER                 -> "dict"

\* Fault: the protocol marker is not compared.
EnvelopeWithoutVersion(body) ==
    /\ BodyOutcome(body) = "dict"
    /\ body.method # None

\* isinstance(body, dict) and body.get("jsonrpc") == "2.0" and "method" in body
EnvelopeOk(body) ==
    /\ BodyOutcome(body) = "dict"
    /\ body.jsonrpc = "2.0"
    /\ body.method # None

\* JSONRPCRequest.model_validate(body) accepts the body
ModelValid(body) == body.params.kind # "invalid"

\* Fault: the verb is not looked at.
AnyVerbDeletes(e, sid) == Truthy(sid)

IsDelete(e, sid) == e.httpMethod = "DELETE" /\ Truthy(sid)

\* Fault: the content type is not looked at.
AnyContentType(e) == TRUE

ContentTypeOk(e) ==
    HeaderGet(LowerHeaders(e.headers), "content-type") = "application/json"

\* Fault: the except clause forgets the session id.
ExceptionResponseNoSession(text, rid, sid) ==
    _create_error_response(-32000, <<text>>, rid, <<>>, None, 0)

\* The except clause of handle_request.
ExceptionResponse(text, rid, sid) ==
    _create_error_response(-32000, <<text>>, rid, <<>>, sid, 0)

\* The request of context c passed lines 324-342: not a DELETE of a
\* session, JSON content type, a valid envelope and request model.
Validated(c) ==
    /\ pc[c] = "bound"
    /\ ~IsDelete(event[c], session_id[c])
    /\ ContentTypeOk(event[c])
    /\ EnvelopeOk(event[c].body)
    /\ ModelValid(event[c].body)

Method(c) == event[c].body.method

RequestParams(c) == event[c].body.params

\* Fault: the no-op store's mode ignores a supplied session id.
SessionIgnoredWhenStateless(st, sid) ==
    IF IsNoOpSessionStore(st) THEN TRUE
    ELSE Truthy(sid) /\ store_get_session(st, sid) # None

\* Fault: a supplied session id is not looked up.
SessionNotLookedUp(st, sid) == Truthy(sid) \/ st.kind = "noop"

\* Lines 359-364 let the request through.
SessionChecked(st, sid) ==
    IF Truthy(sid)
    THEN store_get_session(st, sid) # None
    ELSE IsNoOpSessionStore(st)

\* Fault: a method no branch handles is routed before the session check.
RoutedUnknownFirst(c) ==
    /\ Validated(c)
    /\ Method(c) # "initialize"
    /\ \/ SessionChecked(session_store, session_id[c])
       \/ Method(c) \notin {"tools/list", "tools/call", "prompts/list", "prompts/get",
                            "resources/list", "resources/read", "ping"}

Routed(c) ==
    /\ Validated(c)
    /\ Method(c) # "initialize"
    /\ SessionChecked(session_store, session_id[c])

\* The request would reach create_session.
ReachesCreate(e) ==
    LET sid == HeaderGet(LowerHeaders(e.headers), "mcp-session-id") IN
    /\ e.headers # NullHeaders
    /\ ~IsDelete(e, sid)
    /\ ContentTypeOk(e)
    /\ EnvelopeOk(e.body)
    /\ ModelValid(e.body)
    /\ e.body.method = "initialize"

\* handle_request returns resp from the branch named route; the finally
\* clause has not run yet.
Return(c, resp, rid, route) ==
    /\ response' = [response EXCEPT ![c] = resp]
    /\ request_id' = [request_id EXCEPT ![c] = rid]
    /\ trace' = [trace EXCEPT ![c].route = route]
    /\ pc' = [pc EXCEPT ![c] = "returning"]

\* ---------------------------------------------------------- handle_request

\* Lines 317-322: the locals, the lowercased headers, the session binding.
Start(c, e) ==
    /\ pc[c] = "idle"
    /\ ReachesCreate(e) => session_store.issued < MaxSessions
    /\ event' = [event EXCEPT ![c] = e]
    /\ call' = [call EXCEPT ![c] = NoCall]
    /\ request_id' = [request_id EXCEPT ![c] = None]
    /\ IF e.headers = NullHeaders
       THEN /\ session_id' = [session_id EXCEPT ![c] = None]
            /\ response' = [response EXCEPT ![c] =
                  ExceptionResponse("'NoneType' object has no attribute 'items'", None, None)]
            /\ trace' = [trace EXCEPT ![c] = EntryTrace("exception", session_store, history)]
            /\ pc' = [pc EXCEPT ![c] = "returning"]
            /\ UNCHANGED current_session_id
       ELSE LET sid == HeaderGet(LowerHeaders(e.headers), "mcp-session-id") IN
            /\ session_id' = [session_id EXCEPT ![c] = sid]
            /\ current_session_id' =
                  ContextVar_set(current_session_id, c, IF Truthy(sid) THEN sid ELSE None)
            /\ response' = [response EXCEPT ![c] = NoResponse]
            /\ trace' = [trace EXCEPT ![c] = EntryTrace(None, session_store, history)]
            /\ pc' = [pc EXCEPT ![c] = "bound"]
    /\ history' = [history EXCEPT !.last_initialized = None]
    /\ UNCHANGED <<session_store, registries, helper>>

\* Fault: the content type is checked before the verb.
DeleteAfterContentType(c) ==
    LET r == store_delete_session(session_store, session_id[c]) IN
    /\ pc[c] = "bound"
    /\ IsDelete(event[c], session_id[c])
    /\ IF ContentTypeOk(event[c])
       THEN /\ session_store' = r.store
            /\ history' = IF r.ok
                          THEN [history EXCEPT !.deleted = @ \cup {session_id[c]}]
                          ELSE history
            /\ Return(c, BareResponse(IF r.ok THEN 204 ELSE 404), None, "delete")
       ELSE /\ Return(c, _create_error_response(-32700, <<"Unsupported Media Type">>,
                                                 None, <<>>, None, 0),
                      None, "content-type")
            /\ UNCHANGED <<session_store, history>>
    /\ UNCHANGED <<registries, helper, current_session_id, event, session_id, call>>

\* Lines 324-328: DELETE with a session id.
DeleteRequest(c) ==
    /\ pc[c] = "bound"
    /\ IsDelete(event[c], session_id[c])
    /\ \E fault \in StoreFaults(session_store) :
          IF fault
          THEN /\ Return(c, ExceptionResponse(StoreErrorText, None, session_id[c]),
                         None, "exception")
               /\ UNCHANGED <<session_store, history>>
          ELSE LET r == store_delete_session(session_store, session_id[c]) IN
               /\ session_store' = r.store
               /\ history' = IF r.ok
                             THEN [history EXCEPT !.deleted = @ \cup {session_id[c]}]
                             ELSE history
               /\ Return(c, BareResponse(IF r.ok THEN 204 ELSE 404), None, "delete")
    /\ UNCHANGED <<registries, helper, current_session_id, event, session_id, call>>

\* Fault: a request of the wrong content type ends the session it names.
RejectContentTypeEndsSession(c) ==
    /\ pc[c] = "bound"
    /\ ~IsDelete(event[c], session_id[c])
    /\ ~ContentTypeOk(event[c])
    /\ session_store' = store_delete_session(session_store, session_id[c]).store
    /\ Return(c, _create_error_response(-32700, <<"Unsupported Media Type">>,
                                         None, <<>>, None, 0),
              None, "content-type")
    /\ UNCHANGED <<registries, helper, current_session_id, event, session_id, call, history>>

\* Lines 330-331.
RejectContentType(c) ==
    /\ pc[c] = "bound"
    /\ ~IsDelete(event[c], session_id[c])
    /\ ~ContentTypeOk(event[c])
    /\ Return(c, _create_error_response(-32700, <<"Unsupported Media Type">>,
                                         None, <<>>, None, 0),
              None, "content-type")
    /\ UNCHANGED <<session_store, registries, helper, current_session_id, event, session_id, call, history>>

\* Lines 333-342 when the body is not a valid request.
RejectBody(c) ==
    LET body == event[c].body
        out  == BodyOutcome(body)
        rid  == IF out = "dict" THEN body.id ELSE None
    IN
    /\ pc[c] = "bound"
    /\ ~IsDelete(event[c], session_id[c])
    /\ ContentTypeOk(event[c])
    /\ ~(EnvelopeOk(body) /\ ModelValid(body))
    /\ CASE out \in {"KeyError", "TypeError"} ->
                Return(c, ExceptionResponse(out, None, session_id[c]), None, "exception")
         [] out = "JSONDecodeError" ->
                Return(c, _create_error_response(-32700, <<"Parse error">>,
                                                 None, <<>>, None, 0),
                       None, "parse")
         [] out \in {"list", "dict"} /\ ~EnvelopeOk(body) ->
                Return(c, _create_error_response(-32700, <<"Parse error">>,
                                                 rid, <<>>, None, 0),
                       rid, "envelope")
         [] OTHER ->
                Return(c, ExceptionResponse("validation error", rid, session_id[c]),
                       rid, "exception")
    /\ UNCHANGED <<session_store, registries, helper, current_session_id, event, session_id, call, history>>

InitializeResult == Result("initialize", <<"2024-11-05">>)

\* Fault: the id create_session returns is bound and answered only when
\* the client supplied none.
InitializeKeepsSupplied(c) ==
    LET rid == event[c].body.id
        r == store_create_session(session_store)
        sid == IF Truthy(session_id[c]) THEN session_id[c] ELSE r.id
    IN
    /\ Validated(c)
    /\ Method(c) = "initialize"
    /\ session_store' = r.store
    /\ history' = [history EXCEPT !.last_initialized = r.id]
    /\ session_id' = [session_id EXCEPT ![c] = sid]
    /\ current_session_id' = ContextVar_set(current_session_id, c, sid)
    /\ Return(c, _create_success_response(InitializeResult, rid, sid), rid, "initialize")
    /\ UNCHANGED <<registries, helper, event, call>>

\* Lines 345-357.
Initialize(c) ==
    LET rid == event[c].body.id IN
    /\ Validated(c)
    /\ Method(c) = "initialize"
    /\ \E fault \in StoreFaults(session_store) :
          IF fault
          THEN /\ Return(c, ExceptionResponse(StoreErrorText, rid, session_id[c]),
                         rid, "exception")
               /\ UNCHANGED <<session_store, session_id, current_session_id, history>>
          ELSE LET r == store_create_session(session_store) IN
               /\ session_store' = r.store
               /\ history' = [history EXCEPT !.last_initialized = r.id]
               /\ session_id' = [session_id EXCEPT ![c] = r.id]
               /\ current_session_id' = ContextVar_set(current_session_id, c, r.id)
               /\ Return(c, _create_success_response(InitializeResult, rid, r.id),
                         rid, "initialize")
    /\ UNCHANGED <<registries, helper, event, call>>

\* Lines 359-364 when the session check fails.
RejectSession(c) ==
    LET rid == event[c].body.id IN
    /\ Validated(c)
    /\ Method(c) # "initialize"
    /\ ~SessionChecked(session_store, session_id[c])
    /\ IF Truthy(session_id[c])
       THEN Return(c, _create_error_response(-32000, <<"Invalid or expired session">>,
                                             rid, <<>>, None, 404),
                   rid, "session")
       ELSE Return(c, _create_error_response(-32000, <<"Session required">>,
                                             rid, <<>>, None, 400),
                   rid, "session")
    /\ UNCHANGED <<session_store, registries, helper, current_session_id, event, session_id, call, history>>

\* Line 360 when the store's get_session raises.
SessionLookupRaises(c) ==
    LET rid == event[c].body.id IN
    /\ Validated(c)
    /\ Method(c) # "initialize"
    /\ Truthy(session_id[c])
    /\ TRUE \in StoreFaults(session_store)
    /\ Return(c, ExceptionResponse(StoreErrorText, rid, session_id[c]), rid, "exception")
    /\ UNCHANGED <<session_store, registries, helper, current_session_id, event, session_id, call, history>>

\* Fault: tools/list empties the dict it lists.
ToolsListDraining(c) ==
    LET rid == event[c].body.id IN
    /\ Routed(c)
    /\ Method(c) = "tools/list"
    /\ Return(c, _create_success_response(Result("tools", DictValues(tools)),
                                           rid, session_id[c]),
              rid, "tools/list")
    /\ tools' = EmptyDict
    /\ UNCHANGED <<session_store, tool_implementations, prompts, prompt_implementations,
                   resources, helper, current_session_id, event, session_id, call, history>>

\* Line 367-368.
ToolsList(c) ==
    LET rid == event[c].body.id IN
    /\ Routed(c)
    /\ Method(c) = "tools/list"
    /\ Return(c, _create_success_response(Result("tools", DictValues(tools)),
                                           rid, session_id[c]),
              rid, "tools/list")
    /\ UNCHANGED <<session_store, registries, helper, current_session_id, event, session_id, call, history>>

\* A registered callable is entered: handle_request waits for it.
Invoke(c, kind, name, func, args, rid) ==
    /\ call' = [call EXCEPT ![c] =
          [kind |-> kind, name |-> name, func |-> func, args |-> args, calls |-> 0,
           seen |-> None, got |-> None, ret |-> <<>>, store_calls |-> <<>>,
           out |-> NoOutcome]]
    /\ trace' = [trace EXCEPT ![c].invoked = Append(@, func), ![c].route = kind]
    /\ request_id' = [request_id EXCEPT ![c] = rid]
    /\ pc' = [pc EXCEPT ![c] = "impl"]
    /\ UNCHANGED response

\* Fault: no inner except clause; the outer one answers.
NoInnerExcept(prefix, text, rid, sid) ==
    _create_error_response(-32000, <<text>>, rid, <<>>, sid, 0)

\* The -32603 answer of the except clauses at lines 389, 408 and 431.
ExecutionError(prefix, text, rid, sid) ==
    _create_error_response(-32603, <<prefix, text>>, rid, <<ErrorContent(text)>>, sid, 0)

\* Lines 371-386: tools/call up to the call of the tool.
ToolsCall(c) ==
    LET rid       == event[c].body.id
        tool_name == ParamsGet(RequestParams(c), "name")
        tool_args == ParamsGet(RequestParams(c), "arguments")
    IN
    /\ Routed(c)
    /\ Method(c) = "tools/call"
    /\ ParamsTruthy(RequestParams(c))
    /\ CASE tool_name = Unhashable ->
                /\ Return(c, ExceptionResponse("unhashable type", rid, session_id[c]),
                          rid, "exception")
                /\ UNCHANGED call
         [] tool_name # Unhashable /\ tool_name \notin DictKeys(tools) ->
                /\ Return(c, _create_error_response(-32601, <<"Tool not found", tool_name>>,
                                                    rid, <<>>, session_id[c], 0),
                          rid, "tools/call")
                /\ UNCHANGED call
         [] tool_name \in DictKeys(tools) /\ tool_name \notin DictKeys(tool_implementations) ->
                /\ Return(c, ExecutionError("Error executing tool: ", "KeyError",
                                            rid, session_id[c]),
                          rid, "tools/call")
                /\ UNCHANGED call
         [] tool_name \in DictKeys(tools) /\ tool_name \in DictKeys(tool_implementations)
              /\ tool_args = "nondict" ->
                /\ Return(c, ExecutionError("Error executing tool: ",
                                            "object has no attribute 'items'",
                                            rid, session_id[c]),
                          rid, "tools/call")
                /\ UNCHANGED call
         [] OTHER ->
                LET tool_func == DictGet(tool_implementations, tool_name)
                    converted_args == convert_arguments(tool_func, RequestParams(c).values)
                IN IF converted_args.ok
                   THEN Invoke(c, "tools/call", tool_name, tool_func,
                               converted_args.content, rid)
                   ELSE /\ Return(c, ExecutionError("Error executing tool: ",
                                                    converted_args.exc, rid, session_id[c]),
                                  rid, "tools/call")
                        /\ UNCHANGED call
    /\ UNCHANGED <<session_store, registries, helper, current_session_id, event, session_id, history>>

\* Lines 394-395.
PromptsList(c) ==
    LET rid == event[c].body.id IN
    /\ Routed(c)
    /\ Method(c) = "prompts/list"
    /\ Return(c, _create_success_response(Result("prompts", DictValues(prompts)),
                                           rid, session_id[c]),
              rid, "prompts/list")
    /\ UNCHANGED <<session_store, registries, helper, current_session_id, event, session_id, call, history>>

\* Lines 398-405: prompts/get up to the call of the prompt.
PromptsGet(c) ==
    LET rid         == event[c].body.id
        prompt_name == ParamsGet(RequestParams(c), "name")
        prompt_args == ParamsGet(RequestParams(c), "arguments")
    IN
    /\ Routed(c)
    /\ Method(c) = "prompts/get"
    /\ ParamsTruthy(RequestParams(c))
    /\ CASE prompt_name = Unhashable ->
                /\ Return(c, ExceptionResponse("unhashable type", rid, session_id[c]),
                          rid, "exception")
                /\ UNCHANGED call
         [] prompt_name # Unhashable /\ prompt_name \notin DictKeys(prompts) ->
                /\ Return(c, _create_error_response(-32601, <<"Prompt not found", prompt_name>>,
                                                    rid, <<>>, session_id[c], 0),
                          rid, "prompts/get")
                /\ UNCHANGED call
         [] prompt_name \in DictKeys(prompts)
              /\ prompt_name \notin DictKeys(prompt_implementations) ->
                /\ Return(c, ExecutionError("Error executing prompt: ", "KeyError",
                                            rid, session_id[c]),
                          rid, "prompts/get")
                /\ UNCHANGED call
         [] prompt_name \in DictKeys(prompts)
              /\ prompt_name \in DictKeys(prompt_implementations)
              /\ prompt_args = "nondict" ->
                /\ Return(c, ExecutionError("Error executing prompt: ",
                                            "argument after ** must be a mapping",
                                            rid, session_id[c]),
                          rid, "prompts/get")
                /\ UNCHANGED call
         [] OTHER ->
                Invoke(c, "prompts/get", prompt_name,
                       DictGet(prompt_implementations, prompt_name),
                       RequestParams(c).values, rid)
    /\ UNCHANGED <<session_store, registries, helper, current_session_id, event, session_id, history>>

\* Lines 413-414.
ResourcesList(c) ==
    LET rid == event[c].body.id IN
    /\ Routed(c)
    /\ Method(c) = "resources/list"
    /\ Return(c, _create_success_response(Result("resources", DictValues(resources)),
                                           rid, session_id[c]),
              rid, "resources/list")
    /\ UNCHANGED <<session_store, registries, helper, current_session_id, event, session_id, call, history>>

ResourceContent(uri, mimeType, text) == [uri |-> uri, mimeType |-> mimeType, text |-> text]

\* StaticResource.read_content()
read_content(res) == ResourceContent(res.uri, res.mimeType, res.content)

\* Lines 417-430: resources/read up to the call of a content function.
ResourcesRead(c) ==
    LET rid          == event[c].body.id
        resource_uri == ParamsGet(RequestParams(c), "uri")
    IN
    /\ Routed(c)
    /\ Method(c) = "resources/read"
    /\ CASE ~ParamsTruthy(RequestParams(c)) \/ ~Truthy(resource_uri) ->
                /\ Return(c, _create_error_response(-32602, <<"Missing required parameter: uri">>,
                                                    rid, <<>>, session_id[c], 0),
                          rid, "resources/read")
                /\ UNCHANGED call
         [] ParamsTruthy(RequestParams(c)) /\ resource_uri = Unhashable ->
                /\ Return(c, ExceptionResponse("unhashable type", rid, session_id[c]),
                          rid, "exception")
                /\ UNCHANGED call
         [] ParamsTruthy(RequestParams(c)) /\ Truthy(resource_uri)
              /\ resource_uri # Unhashable /\ resource_uri \notin DictKeys(resources) ->
                /\ Return(c, _create_error_response(-32601, <<"Resource not found: ", resource_uri>>,
                                                    rid, <<>>, session_id[c], 0),
                          rid, "resources/read")
                /\ UNCHANGED call
         [] OTHER ->
                LET res == DictGet(resources, resource_uri) IN
                IF res.content_func # None
                THEN Invoke(c, "resources/read", resource_uri, res.content_func, <<>>, rid)
                ELSE /\ Return(c, _create_success_response(
                                      Result("contents", <<read_content(res)>>),
                                      rid, session_id[c]),
                               rid, "resources/read")
                     /\ UNCHANGED call
    /\ UNCHANGED <<session_store, registries, helper, current_session_id, event, session_id, history>>

\* Fault: the ping branch is missing, so that ping falls through to line 440.
PingNotHandled(c) ==
    LET rid == event[c].body.id IN
    /\ Routed(c)
    /\ Method(c) = "ping"
    /\ Return(c, _create_error_response(-32601, <<"Method not found: ", Method(c)>>,
                                         rid, <<>>, session_id[c], 0),
              rid, "unknown")
    /\ UNCHANGED <<session_store, registries, helper, current_session_id, event, session_id, call, history>>

\* Lines 436-437.
Ping(c) ==
    LET rid == event[c].body.id IN
    /\ Routed(c)
    /\ Method(c) = "ping"
    /\ Return(c, _create_success_response(Result("empty", <<>>), rid, session_id[c]),
              rid, "ping")
    /\ UNCHANGED <<session_store, registries, helper, current_session_id, event, session_id, call, history>>

\* Line 440: no branch above returned.
MethodNotFound(c) ==
    LET rid == event[c].body.id IN
    /\ Routed(c)
    /\ Method(c) \notin {"tools/list", "prompts/list", "resources/list",
                         "resources/read", "ping"}
    /\ ~(Method(c) = "tools/call" /\ ParamsTruthy(RequestParams(c)))
    /\ ~(Method(c) = "prompts/get" /\ ParamsTruthy(RequestParams(c)))
    /\ Return(c, _create_error_response(-32601, <<"Method not found: ", Method(c)>>,
                                         rid, <<>>, session_id[c], 0),
              rid, "unknown")
    /\ UNCHANGED <<session_store, registries, helper, current_session_id, event, session_id, call, history>>

\* ------------------------------------------- inside a registered callable

\* What a registered callable can do when it ends: return a value of one
\* of the shapes the normalizer tells apart, or raise.
ImplOutcomes ==
    {[kind |-> "return", value |-> v, text |-> ""] :
        v \in {Str("remembered"),
               ToolResult(<<TextContent("remembered")>>),
               ToolResult(<<>>),
               List(<<PromptMessage("user", "decide"), Str("x")>>),
               List(<<>>)}}
    \cup {[kind |-> "raise", value |-> Str(""), text |-> "boom"]}

\* mcp.get_session(), lines 114-119, called by the running callable:
\* what it read, the helper that returned and what it returned (a
\* SessionData, None, True or False), and the store methods it called.
GetSession(c) ==
    LET sid == ContextVar_get(current_session_id, c)
        got == IF ~Truthy(sid) THEN None ELSE store_get_session(session_store, sid)
    IN
    /\ pc[c] = "impl"
    /\ call[c].calls < MaxImplCalls
    /\ call' = [call EXCEPT ![c].calls = @ + 1,
                            ![c].seen = sid,
                            ![c].got = got,
                            ![c].ret = <<"get_session",
                                         IF got = None THEN "None" ELSE "SessionData">>,
                            ![c].store_calls =
                                IF Truthy(sid) THEN <<"get_session">> ELSE <<>>]
    /\ UNCHANGED <<session_store, registries, helper, current_session_id, pc, event,
                   request_id, session_id, response, trace, history>>

\* mcp.set_session(data), lines 121-125, called by the running callable.
SetSession(c, data) ==
    LET sid == ContextVar_get(current_session_id, c) IN
    /\ pc[c] = "impl"
    /\ call[c].calls < MaxImplCalls
    /\ call' = [call EXCEPT ![c].calls = @ + 1,
                            ![c].seen = sid,
                            ![c].ret =
                                <<"set_session",
                                  IF Truthy(sid)
                                     /\ store_update_session(session_store, sid, data).ok
                                  THEN "True" ELSE "False">>,
                            ![c].store_calls =
                                IF Truthy(sid) THEN <<"update_session">> ELSE <<>>]
    /\ session_store' = IF ~Truthy(sid) THEN session_store
                        ELSE store_update_session(session_store, sid, data).store
    /\ UNCHANGED <<registries, helper, current_session_id, pc, event, request_id,
                   session_id, response, trace, history>>

\* Lines 386-391, 405-410, 426-433: the callable ends; its result is
\* normalized and answered, an exception is answered as -32603.
ImplReturn(c, out) ==
    LET rid    == request_id[c]
        sid    == session_id[c]
        kind   == call[c].kind
        prefix == CASE kind = "tools/call"  -> "Error executing tool: "
                    [] kind = "prompts/get" -> "Error executing prompt: "
                    [] OTHER                -> "Error reading resource: "
        conv   == _convert_result_to_content(out.value)
    IN
    /\ pc[c] = "impl"
    /\ CASE out.kind = "raise" ->
                Return(c, ExecutionError(prefix, out.text, rid, sid), rid, kind)
         [] out.kind = "return" /\ kind = "resources/read" ->
                Return(c, _create_success_response(
                              Result("contents",
                                     <<ResourceContent(call[c].name,
                                                       DictGet(resources, call[c].name).mimeType,
                                                       str(out.value))>>),
                              rid, sid),
                       rid, kind)
         [] out.kind = "return" /\ kind # "resources/read" /\ ~conv.ok ->
                Return(c, ExecutionError(prefix, conv.exc, rid, sid), rid, kind)
         [] OTHER ->
                Return(c, _create_success_response(
                              Result(IF kind = "tools/call" THEN "content" ELSE "messages",
                                     conv.content),
                              rid, sid),
                       rid, kind)
    /\ call' = [call EXCEPT ![c].out = out]
    /\ UNCHANGED <<session_store, registries, helper, current_session_id, event, session_id, history>>

\* Fault: no finally clause.
ReturnWithoutReset(c) ==
    /\ pc[c] = "returning"
    /\ pc' = [pc EXCEPT ![c] = "done"]
    /\ UNCHANGED <<session_store, registries, helper, current_session_id, event, request_id,
                   session_id, response, call, trace, history>>

\* Lines 445-446: the finally clause, then the return to the caller.
Finish(c) ==
    /\ pc[c] = "returning"
    /\ current_session_id' = ContextVar_set(current_session_id, c, None)
    /\ pc' = [pc EXCEPT ![c] = "done"]
    /\ UNCHANGED <<session_store, registries, helper, event, request_id, session_id,
                   response, call, trace, history>>

\* The caller (the Lambda runtime) takes the returned response; the call's
\* frame is gone and the context is free for the next request.
Deliver(c) ==
    /\ pc[c] = "done"
    /\ pc' = [pc EXCEPT ![c] = "idle"]
    /\ event' = [event EXCEPT ![c] = NoEvent]
    /\ request_id' = [request_id EXCEPT ![c] = None]
    /\ session_id' = [session_id EXCEPT ![c] = None]
    /\ response' = [response EXCEPT ![c] = NoResponse]
    /\ call' = [call EXCEPT ![c] = NoCall]
    /\ trace' = [trace EXCEPT ![c] = NoTrace]
    /\ UNCHANGED <<session_store, registries, helper, current_session_id, history>>

\* ------------------------------------------------------------ specification

\* The hosting platform hands an event to an idle context.
Receive(c) ==
    /\ pc[c] = "idle"
    /\ \E e \in Events(session_store) : Start(c, e)

Handle(c) ==
    \/ DeleteRequest(c)
    \/ RejectContentType(c)
    \/ RejectBody(c)
    \/ Initialize(c)
    \/ RejectSession(c)
    \/ SessionLookupRaises(c)
    \/ ToolsList(c)
    \/ ToolsCall(c)
    \/ PromptsList(c)
    \/ PromptsGet(c)
    \/ ResourcesList(c)
    \/ ResourcesRead(c)
    \/ Ping(c)
    \/ MethodNotFound(c)
    \/ GetSession(c)
    \/ \E data \in Payloads : SetSession(c, data)
    \/ \E out \in ImplOutcomes : ImplReturn(c, out)
    \/ Finish(c)
    \/ Deliver(c)

\* One request at a time, as the Lambda runtime invokes the handler.
Next ==
    \/ Receive(MainContext)
    \/ Handle(MainContext)

Spec == Init /\ [][Next]_vars

RECURSIVE Initialized(_, _)
\* The store after n clients have initialized against it.
Initialized(st, n) ==
    IF n = 0 THEN st ELSE Initialized(store_create_session(st).store, n - 1)

\* A warm Lambda container: the server module's registrations, a durable
\* store holding the sessions of clients that initialized earlier, and no
\* request in flight.
InitConcurrent ==
    /\ session_store = Initialized(NewStore("durable"), MaxSessions)
    /\ tools = ServerRegistry.tools
    /\ tool_implementations = ServerRegistry.tool_implementations
    /\ prompts = ServerRegistry.prompts
    /\ prompt_implementations = ServerRegistry.prompt_implementations
    /\ resources = ServerRegistry.resources
    /\ current_session_id = [c \in Contexts |-> None]
    /\ pc = [c \in Contexts |-> "idle"]
    /\ event = [c \in Contexts |-> NoEvent]
    /\ request_id = [c \in Contexts |-> None]
    /\ session_id = [c \in Contexts |-> None]
    /\ response = [c \in Contexts |-> NoResponse]
    /\ call = [c \in Contexts |-> NoCall]
    /\ trace = [c \in Contexts |-> NoTrace]
    /\ history = NoHistory
    /\ helper = NoHelperCall

\* Two requests at once in one process, each in its own context: tool
\* calls of clients that hold sessions, interleaved at every step.
ReceiveConcurrent(c) ==
    /\ pc[c] = "idle"
    /\ \E s \in IssuedIds(session_store) :
          Start(c, Event(Headers("lower", "application/json", s), "POST",
                         ObjectBody("2.0", "1", "tools/call",
                                    Params("memory.store", "dict", None))))

NextConcurrent ==
    \E c \in Contexts :
        \/ ReceiveConcurrent(c)
        \/ SessionLookupRaises(c)
        \/ ToolsCall(c)
        \/ GetSession(c)
        \/ \E data \in Payloads : SetSession(c, data)
        \/ \E out \in {o \in ImplOutcomes : o.kind = "return" => o.value = Str("remembered")} :
              ImplReturn(c, out)
        \/ Finish(c)
        \/ Deliver(c)

SpecConcurrent == InitConcurrent /\ [][NextConcurrent]_vars

\* ------------------------------------------------- update_session, twice

\* updater_func(session), line 131: the callable running in a context sets
\* its own key in the SessionData it was handed; session.raw() is then the
\* payload with that key. Payloads are told apart by the keys they hold.
Updated(payload, c) ==
    LET UpdaterKey == IF c = MainContext THEN "a" ELSE "b"
        PayloadKeys == (EmptyPayload :> {}) @@ ("{a:1}" :> {"a"}) @@ ("{b:1}" :> {"b"})
                       @@ ("{a:1,b:1}" :> {"a", "b"})
    IN CHOOSE p \in DOMAIN PayloadKeys :
          PayloadKeys[p] = PayloadKeys[payload] \cup {UpdaterKey}

\* Fault: the updater runs whatever get_session returned.
UpdateSessionUnchecked(c) ==
    LET sid == ContextVar_get(current_session_id, c)
        got == IF ~Truthy(sid) THEN None ELSE store_get_session(session_store, sid)
    IN
    /\ pc[c] = "impl"
    /\ call[c].calls < MaxImplCalls
    /\ call' = [call EXCEPT ![c].seen = sid,
                            ![c].got = IF got = None THEN EmptyPayload ELSE got,
                            ![c].ret = <<>>,
                            ![c].store_calls =
                                IF Truthy(sid) THEN <<"get_session">> ELSE <<>>]
    /\ pc' = [pc EXCEPT ![c] = "updating"]
    /\ UNCHANGED <<session_store, registries, helper, current_session_id, event,
                   request_id, session_id, response, trace, history>>

\* Lines 128-130: update_session calls get_session, and returns False when
\* there is no session to update.
UpdateSessionGet(c) ==
    LET sid == ContextVar_get(current_session_id, c)
        got == IF ~Truthy(sid) THEN None ELSE store_get_session(session_store, sid)
    IN
    /\ pc[c] = "impl"
    /\ call[c].calls < MaxImplCalls
    /\ call' = [call EXCEPT ![c].calls = IF got = None THEN @ + 1 ELSE @,
                            ![c].seen = sid,
                            ![c].got = got,
                            ![c].ret = IF got = None
                                       THEN <<"update_session", "False">> ELSE <<>>,
                            ![c].store_calls =
                                IF Truthy(sid) THEN <<"get_session">> ELSE <<>>]
    /\ pc' = [pc EXCEPT ![c] = IF got = None THEN "impl" ELSE "updating"]
    /\ UNCHANGED <<session_store, registries, helper, current_session_id, event,
                   request_id, session_id, response, trace, history>>

\* Fault: the payload is read again when it is written.
UpdateSessionAtomic(c) ==
    LET sid == ContextVar_get(current_session_id, c) IN
    /\ pc[c] = "updating"
    /\ session_store' =
          store_update_session(session_store, sid,
                               Updated(store_get_session(session_store, sid), c)).store
    /\ call' = [call EXCEPT ![c].calls = @ + 1]
    /\ pc' = [pc EXCEPT ![c] = "impl"]
    /\ UNCHANGED <<registries, helper, current_session_id, event, request_id,
                   session_id, response, trace, history>>

\* Lines 131-132: the updater has run on what get_session returned, and
\* set_session writes the result under the context's session id.
UpdateSessionSet(c) ==
    LET sid == ContextVar_get(current_session_id, c) IN
    /\ pc[c] = "updating"
    /\ session_store' =
          IF ~Truthy(sid) THEN session_store
          ELSE store_update_session(session_store, sid, Updated(call[c].got, c)).store
    /\ call' = [call EXCEPT ![c].calls = @ + 1,
                            ![c].ret =
                                <<"update_session",
                                  IF Truthy(sid)
                                     /\ store_update_session(session_store, sid,
                                                             Updated(call[c].got, c)).ok
                                  THEN "True" ELSE "False">>,
                            ![c].store_calls =
                                IF Truthy(sid) THEN Append(@, "update_session") ELSE @]
    /\ pc' = [pc EXCEPT ![c] = "impl"]
    /\ UNCHANGED <<registries, helper, current_session_id, event, request_id,
                   session_id, response, trace, history>>

NextUpdate ==
    \E c \in Contexts :
        \/ ReceiveConcurrent(c)
        \/ ToolsCall(c)
        \/ UpdateSessionGet(c)
        \/ UpdateSessionSet(c)
        \/ ImplReturn(c, [kind |-> "return", value |-> Str("remembered"), text |-> ""])
        \/ Finish(c)

\* Two tool calls of clients that hold sessions, one in each context, whose
\* tool updates the caller's session.
SpecUpdate == InitConcurrent /\ [][NextUpdate]_vars

\* ------------------------------------- the session helpers inside a call

\* Two requests at once: calls of a tool and of a prompt whose callables
\* use get_session, set_session and update_session, with a session id or
\* without one, and DELETE of a session while the other call runs.
NextSession ==
    \E c \in Contexts :
        \/ /\ pc[c] = "idle"
           /\ \E s \in IssuedIds(session_store) \cup {None} :
                 \/ \E b \in {ObjectBody("2.0", "1", "tools/call",
                                         Params("memory.store", "dict", None)),
                              ObjectBody("2.0", "1", "prompts/get",
                                         Params("memory.decide", None, None))} :
                       Start(c, Event(Headers("lower", "application/json", s), "POST", b))
                 \/ /\ s # None
                    /\ Start(c, Event(Headers("lower", None, s), "DELETE", RawBody("missing")))
        \/ DeleteRequest(c)
        \/ RejectSession(c)
        \/ ToolsCall(c)
        \/ PromptsGet(c)
        \/ GetSession(c)
        \/ \E data \in {EmptyPayload, "{b:1}"} : SetSession(c, data)
        \/ UpdateSessionGet(c)
        \/ UpdateSessionSet(c)
        \/ ImplReturn(c, [kind |-> "return", value |-> Str("remembered"), text |-> ""])
        \/ Finish(c)

\* A warm container whose store is durable and holds the sessions of
\* clients that initialized earlier, or is the no-op store.
InitSession ==
    /\ session_store \in {Initialized(NewStore(kind), MaxSessions) : kind \in {"durable", "noop"}}
    /\ tools = ServerRegistry.tools
    /\ tool_implementations = ServerRegistry.tool_implementations
    /\ prompts = ServerRegistry.prompts
    /\ prompt_implementations = ServerRegistry.prompt_implementations
    /\ resources = ServerRegistry.resources
    /\ current_session_id = [c \in Contexts |-> None]
    /\ pc = [c \in Contexts |-> "idle"]
    /\ event = [c \in Contexts |-> NoEvent]
    /\ request_id = [c \in Contexts |-> None]
    /\ session_id = [c \in Contexts |-> None]
    /\ response = [c \in Contexts |-> NoResponse]
    /\ call = [c \in Contexts |-> NoCall]
    /\ trace = [c \in Contexts |-> NoTrace]
    /\ history = NoHistory
    /\ helper = NoHelperCall

SpecSession == InitSession /\ [][NextSession]_vars

\* ------------------------------------------------- tools/call arguments

\* Calls of set_mode(mode: Mode, note: str) whose arguments object holds
\* any of mode, note and an undeclared name, in either order, each with a
\* member value of Mode, another string or a JSON array.
ArgumentEvents ==
    LET absent == [t |-> "absent", v |-> "", items |-> <<>>]
        given  == {Str("fast"), Str("slow"), Str("turbo"), List(<<Str("fast")>>), absent}
        Present(pair) == pair[2] # absent
    IN {Event(Headers("lower", "application/json", None), "POST",
              ObjectBody("2.0", "1", "tools/call",
                         Arguments("set_mode", SelectSeq(pairs, Present)))) :
           pairs \in UNION {{<<<<"mode", m>>, <<"note", n>>, <<"extra", x>>>>,
                             <<<<"extra", x>>, <<"note", n>>, <<"mode", m>>>>} :
                               m \in given, n \in given, x \in given}}

\* The server's registrations and set_mode under its own name, with the
\* no-op store.
InitArguments ==
    LET reg == tool(ServerRegistry, None, None, "set_mode") IN
    /\ session_store = NewStore("noop")
    /\ tools = reg.tools
    /\ tool_implementations = reg.tool_implementations
    /\ prompts = reg.prompts
    /\ prompt_implementations = reg.prompt_implementations
    /\ resources = reg.resources
    /\ current_session_id = [c \in Contexts |-> None]
    /\ pc = [c \in Contexts |-> "idle"]
    /\ event = [c \in Contexts |-> NoEvent]
    /\ request_id = [c \in Contexts |-> None]
    /\ session_id = [c \in Contexts |-> None]
    /\ response = [c \in Contexts |-> NoResponse]
    /\ call = [c \in Contexts |-> NoCall]
    /\ trace = [c \in Contexts |-> NoTrace]
    /\ history = NoHistory
    /\ helper = NoHelperCall

NextArguments ==
    \/ pc[MainContext] = "idle" /\ \E e \in ArgumentEvents : Start(MainContext, e)
    \/ ToolsCall(MainContext)
    \/ \E out \in ImplOutcomes : ImplReturn(MainContext, out)
    \/ Finish(MainContext)
    \/ Deliver(MainContext)

SpecArguments == InitArguments /\ [][NextArguments]_vars

\* Cold start and after: the application registers tools, prompts and
\* resources while handle_request is not running, under explicit names or
\* under the callable's own, and clients list what is registered.
RegisteredNames == {None, "memory.store"}

RegisteredPromptNames == {None, "memory.decide"}

ToolFuncs == {"memory_store", "memory_recall"}

PromptFuncs == {"memory_decide", "memory_recall"}

\* The handler as the registries' fields make it up.
Registry ==
    [tools |-> tools, tool_implementations |-> tool_implementations,
     prompts |-> prompts, prompt_implementations |-> prompt_implementations,
     resources |-> resources]

\* The registration of what under key left the handler's registries as
\* reg.
Registered(reg, kind, key, what) ==
    /\ \A c \in Contexts : pc[c] \in {"idle", "done"}
    /\ tools' = reg.tools
    /\ tool_implementations' = reg.tool_implementations
    /\ prompts' = reg.prompts
    /\ prompt_implementations' = reg.prompt_implementations
    /\ resources' = reg.resources
    /\ history' = [history EXCEPT !.registered[kind] = (key :> what) @@ @]
    /\ UNCHANGED <<session_store, current_session_id, pc, locals, helper>>

\* tool_name = name or func.__name__
RegisteredAs(name, func) == IF name # None THEN name ELSE FuncDefs[func].name

RegisterTool(name, func) ==
    Registered(tool(Registry, name, None, func), "tools", RegisteredAs(name, func), func)

RegisterPrompt(name, func) ==
    Registered(prompt(Registry, name, None, func), "prompts", RegisteredAs(name, func), func)

RegisterResource(uri, mime_type) ==
    Registered(resource(Registry, uri, "dynamic", mime_type, "dynamic_text"),
               "resources", uri,
               [content_func |-> "dynamic_text",
                mimeType |-> IF mime_type # None THEN mime_type ELSE "text/plain"])

AddResource(uri) ==
    Registered(add_resource(Registry, Resource(uri, "static", "text/markdown", "static text", None)),
               "resources", uri, [content_func |-> None, mimeType |-> "text/markdown"])

Register ==
    \/ \E n \in RegisteredNames, f \in ToolFuncs : RegisterTool(n, f)
    \/ \E n \in RegisteredPromptNames, f \in PromptFuncs : RegisterPrompt(n, f)
    \/ \E m \in {None, "text/html"} : RegisterResource("res://dynamic", m)
    \/ AddResource("res://dynamic")

\* MCPLambdaHandler(name): empty registries and the no-op store.
InitRegistration ==
    /\ session_store = NewStore("noop")
    /\ tools = EmptyDict
    /\ tool_implementations = EmptyDict
    /\ prompts = EmptyDict
    /\ prompt_implementations = EmptyDict
    /\ resources = EmptyDict
    /\ current_session_id = [c \in Contexts |-> None]
    /\ pc = [c \in Contexts |-> "idle"]
    /\ event = [c \in Contexts |-> NoEvent]
    /\ request_id = [c \in Contexts |-> None]
    /\ session_id = [c \in Contexts |-> None]
    /\ response = [c \in Contexts |-> NoResponse]
    /\ call = [c \in Contexts |-> NoCall]
    /\ trace = [c \in Contexts |-> NoTrace]
    /\ history = NoHistory
    /\ helper = NoHelperCall

NextRegistration ==
    \/ Register
    \/ /\ pc[MainContext] = "idle"
       /\ \E m \in {"tools/list", "prompts/list", "resources/list"} :
             Start(MainContext, Event(Headers("lower", "application/json", None), "POST",
                                      ObjectBody("2.0", "1", m, NoParams)))
    \/ ToolsList(MainContext)
    \/ PromptsList(MainContext)
    \/ ResourcesList(MainContext)
    \/ Finish(MainContext)
    \/ Deliver(MainContext)

SpecRegistration == InitRegistration /\ [][NextRegistration]_vars

\* ------------------------------------------------- schemas at registration

\* The application registers callables whose signatures declare every
\* kind of parameter type as tools and as prompts, under their own names
\* or under an explicit one.
NextSchema ==
    \E n \in {None, "configure"}, f \in {"scale", "configure", "describe", "memory_decide"} :
        \/ RegisterTool(n, f)
        \/ RegisterPrompt(n, f)

SpecSchema == InitRegistration /\ [][NextSchema]_vars

\* ------------------------------------------- helper methods called directly

\* How many elements a list returned by a callable has at most.
MaxListLen == 2

\* Byte strings around each signature the normalizer looks for: the
\* signature alone, cut short, followed by more bytes, and spoiled.
ByteStrings ==
    {<<>>, <<0>>, <<255, 216>>, Magic.jpeg, Magic.jpeg \o <<224, 0>>,
     SubSeq(Magic.png, 1, 7), Magic.png, Magic.png \o <<0>>,
     Magic.gif87a, Magic.gif89a, <<71, 73, 70, 56, 56, 97>>,
     Magic.riff, Magic.riff \o <<0, 0, 0, 0>> \o Magic.webp,
     Magic.riff \o <<0, 0, 0, 0>> \o SubSeq(Magic.webp, 1, 3),
     Magic.riff \o <<0, 0, 0, 0>> \o <<87, 65, 86, 69>>,
     <<0, 0, 0, 0>> \o <<0, 0, 0, 0>> \o Magic.webp}

\* Values that are not lists, one of each shape the normalizer tells apart.
Scalars ==
    {Str("remembered"), Str(""), PromptMessage("user", "decide"),
     ToolResult(<<>>), ToolResult(<<TextContent("a")>>),
     ToolResult(<<TextContent("a"), TextContent("b")>>),
     Integer(0), Integer(42), Integer(-7), Bool(TRUE), Bool(FALSE),
     [Str("") EXCEPT !.t = "NoneType"]}
    \cup {Bytes(bs) : bs \in ByteStrings}

ListElements ==
    {Str("remembered"), PromptMessage("user", "decide"), ToolResult(<<>>),
     ToolResult(<<TextContent("a"), TextContent("b")>>)}

ListsOf(elements) ==
    {List(items) : items \in UNION {[1..n -> elements] : n \in 0..MaxListLen}}

\* Every value a callable is taken to return: scalars, lists of them and
\* lists holding lists.
ReturnValues ==
    Scalars \cup ListsOf(ListElements \cup ListsOf(ListElements))

\* self._convert_result_to_content(result), as lines 387 and 406 call it.
ConvertCalls ==
    {[name |-> "_convert_result_to_content", args |-> <<v>>, ret |-> <<>>] :
        v \in ReturnValues}

\* The called helper runs to its end: a return or an exception.
HelperReturn ==
    /\ helper.name = "_convert_result_to_content"
    /\ helper.ret = <<>>
    /\ helper' = [helper EXCEPT !.ret = <<_convert_result_to_content(helper.args[1])>>]
    /\ UNCHANGED <<session_store, registries, current_session_id, pc, event,
                   request_id, session_id, response, call, trace, history>>

\* A constructed handler on which one helper is about to be called.
InitHelpers ==
    /\ session_store = NewStore("noop")
    /\ tools = ServerRegistry.tools
    /\ tool_implementations = ServerRegistry.tool_implementations
    /\ prompts = ServerRegistry.prompts
    /\ prompt_implementations = ServerRegistry.prompt_implementations
    /\ resources = ServerRegistry.resources
    /\ current_session_id = [c \in Contexts |-> None]
    /\ pc = [c \in Contexts |-> "idle"]
    /\ event = [c \in Contexts |-> NoEvent]
    /\ request_id = [c \in Contexts |-> None]
    /\ session_id = [c \in Contexts |-> None]
    /\ response = [c \in Contexts |-> NoResponse]
    /\ call = [c \in Contexts |-> NoCall]
    /\ trace = [c \in Contexts |-> NoTrace]
    /\ history = NoHistory
    /\ helper \in ConvertCalls

SpecHelpers == InitHelpers /\ [][HelperReturn]_vars

\* ------------------------------------------------------- reading a request

\* The value of the header a client sent under any spelling of `name`.
ClientHeader(e, name) ==
    LET hits == {i \in DOMAIN e.headers :
                    e.headers[i][1] \in {name, ContentTypeName("mixed"), SessionIdName("mixed")}
                    /\ (e.headers[i][1] = name
                        \/ (name = "content-type" /\ e.headers[i][1] = "Content-Type")
                        \/ (name = "mcp-session-id" /\ e.headers[i][1] = "Mcp-Session-Id"))}
    IN IF hits = {} THEN None ELSE e.headers[CHOOSE i \in hits : TRUE][2]

\* The session id the client supplied; an empty value supplies none.
SuppliedSid(e) ==
    LET v == ClientHeader(e, "mcp-session-id") IN IF v = "" THEN None ELSE v

HeadersReadable(e) == e.headers # NullHeaders

DeleteOfSession(e) == e.httpMethod = "DELETE" /\ SuppliedSid(e) # None

JsonContent(e) == ClientHeader(e, "content-type") = "application/json"

\* A JSON-RPC request that passes the content-type, parse, envelope and
\* request-model checks.
WellFormed(e) ==
    /\ HeadersReadable(e)
    /\ ~DeleteOfSession(e)
    /\ JsonContent(e)
    /\ e.body.kind = "object"
    /\ e.body.jsonrpc = "2.0"
    /\ e.body.method # None
    /\ e.body.params.kind # "invalid"

\* handle_request has built its response (the finally clause may be pending).
Answered(c) == pc[c] \in {"returning", "done"}

Running(c) == pc[c] \in {"bound", "impl", "returning"}

ErrorCode(c) == response[c].body.error.code

Status(c) == response[c].statusCode

\* The store call of this request raised.
StoreFailed(c) ==
    /\ trace[c].route = "exception"
    /\ response[c].body.error.message = <<StoreErrorText>>

IsSuccess(c) ==
    /\ Status(c) = 200
    /\ response[c].body.result.kind # None
    /\ ErrorCode(c) = 0

IsError(c, code, status) ==
    /\ ErrorCode(c) = code
    /\ Status(c) = status
    /\ response[c].body.result.kind = None

\* Methods that need nothing but a valid session to succeed.
SessionMethods == {"ping", "tools/list", "prompts/list", "resources/list"}

\* ------------------------------------------------------------------ claims

\* C1 (as stated): with any session store, durable or no-op, a well-formed
\* initialize answers 200 with a session id no earlier initialize returned,
\* and a session-requiring request sent right after it with that id
\* answers 200 with a result.
C1_InitializeThenUse ==
    \A c \in Contexts :
        (Answered(c) /\ WellFormed(event[c]) /\ ~StoreFailed(c)) =>
            /\ event[c].body.method = "initialize" =>
                  /\ IsSuccess(c)
                  /\ Truthy(response[c].headers.MCPSessionId)
                  /\ response[c].headers.MCPSessionId \notin IssuedIds(trace[c].pre)
            /\ (/\ event[c].body.method \in SessionMethods
                /\ trace[c].fresh # None
                /\ SuppliedSid(event[c]) = trace[c].fresh) => IsSuccess(c)

\* C1, the part that holds: the same with a durable store.
C1_DurableInitializeThenUse ==
    session_store.kind = "durable" => C1_InitializeThenUse

\* No exception reached the except clause of handle_request.
NoException(c) == trace[c].route # "exception"

\* The store held a session for the supplied id when the request came in.
HadSession(c) ==
    /\ SuppliedSid(event[c]) # None
    /\ SuppliedSid(event[c]) \in DOMAIN trace[c].pre.table

\* The supplied id is one whose DELETE was answered 204 before this request.
WasDeleted(c) ==
    /\ SuppliedSid(event[c]) # None
    /\ SuppliedSid(event[c]) \in trace[c].pre_deleted

\* What C2 says of DELETE itself: 204 and removal for a live session, 404
\* for a deleted or never-created id.
DeleteAnswers(c) ==
    LET sid == SuppliedSid(event[c]) IN
    DeleteOfSession(event[c]) =>
        /\ HadSession(c) => (Status(c) = 204 /\ sid \notin DOMAIN session_store.table)
        /\ WasDeleted(c) => Status(c) = 404
        /\ sid \notin IssuedIds(trace[c].pre) => Status(c) = 404

NoHandlerRan(c) ==
    /\ trace[c].route = "session"
    /\ trace[c].invoked = <<>>
    /\ session_store = trace[c].pre

\* C3: a well-formed request other than initialize that supplies a session
\* id the store has no session for is answered -32000 at 404; one that
\* supplies none (an empty header value supplies none) while the store is
\* not the no-op store is answered -32000 at 400; no handler runs.
C3_SessionGate ==
    \A c \in Contexts :
        (/\ Answered(c)
         /\ WellFormed(event[c])
         /\ event[c].body.method # "initialize"
         /\ NoException(c)) =>
            /\ (SuppliedSid(event[c]) # None /\ ~HadSession(c)) =>
                  (IsError(c, -32000, 404) /\ NoHandlerRan(c))
            /\ (SuppliedSid(event[c]) = None /\ trace[c].pre.kind # "noop") =>
                  (IsError(c, -32000, 400) /\ NoHandlerRan(c))

\* A tools/call for a registered tool with a made-up session id is refused.
C3_Witness ==
    /\ pc[MainContext] = "done"
    /\ SuppliedSid(event[MainContext]) = GhostId
    /\ event[MainContext].body.method = "tools/call"
    /\ event[MainContext].body.params.name \in DictKeys(tools)
    /\ IsError(MainContext, -32000, 404)

\* The request passed lines 359-364.
PassedSession(c) ==
    \/ HadSession(c)
    \/ SuppliedSid(event[c]) = None /\ trace[c].pre.kind = "noop"

\* A tools/call that passed session validation names no registered tool.
UnknownToolCall(c) ==
    /\ Answered(c)
    /\ WellFormed(event[c])
    /\ event[c].body.method = "tools/call"
    /\ PassedSession(c)
    /\ ~StoreFailed(c)
    /\ event[c].body.params.name \notin DictKeys(tools)

\* C4 (as stated): a tools/call that passes session validation and whose
\* params.name is not a key of the tool registry is answered -32601 at
\* HTTP 404, and nothing registered is invoked.
C4_UnknownTool ==
    \A c \in Contexts :
        UnknownToolCall(c) => (IsError(c, -32601, 404) /\ trace[c].invoked = <<>>)

\* C4, the part that holds: the same for a name that is a string or absent.
C4_UnknownToolName ==
    \A c \in Contexts :
        (UnknownToolCall(c) /\ event[c].body.params.name # Unhashable) =>
            (IsError(c, -32601, 404) /\ trace[c].invoked = <<>>)

\* C4: whatever the name, nothing registered is invoked.
C4_NothingInvoked ==
    \A c \in Contexts : UnknownToolCall(c) => trace[c].invoked = <<>>

\* The text of the exception raised by the callable or by the
\* normalization of what it returned; None when neither raised.
RaisedText(c) ==
    LET out  == call[c].out
        conv == _convert_result_to_content(out.value)
    IN CASE out.kind = "raise" -> out.text
         [] out.kind = "return" /\ ~conv.ok -> conv.exc
         [] OTHER -> None

\* C5: when a tool or prompt implementation was entered and it, or the
\* normalization of its result, raised, the answer is -32603 at HTTP 500,
\* error.message contains the exception text, errorContent is one error
\* item with that text, and the code is never -32000.
C5_ImplementationRaises ==
    \A c \in Contexts :
        (/\ Answered(c)
         /\ call[c].kind \in {"tools/call", "prompts/get"}
         /\ RaisedText(c) # None) =>
            /\ IsError(c, -32603, 500)
            /\ \E i \in DOMAIN response[c].body.error.message :
                  response[c].body.error.message[i] = RaisedText(c)
            /\ response[c].body.errorContent = <<[type |-> "error", text |-> RaisedText(c)]>>
            /\ response[c].body.id = event[c].body.id

\* A prompt implementation raised and handle_request returned.
C5_Witness ==
    /\ pc[MainContext] = "done"
    /\ call[MainContext].kind = "prompts/get"
    /\ call[MainContext].out.kind = "raise"
    /\ ErrorCode(MainContext) = -32603

\* The request id handle_request had read when it answered: the body's id
\* once the body parsed to an object, null before.
ResolvedRequestId(e) ==
    IF /\ HeadersReadable(e)
       /\ ~DeleteOfSession(e)
       /\ JsonContent(e)
       /\ e.body.kind = "object"
    THEN e.body.id
    ELSE None

\* The inputs that raise outside every inner handler: a headers value that
\* is no mapping, a missing or null body, a body the request model rejects.
RaisingInput(e) ==
    \/ ~HeadersReadable(e)
    \/ /\ ~DeleteOfSession(e)
       /\ JsonContent(e)
       /\ \/ e.body.kind \in {"missing", "null"}
          \/ /\ e.body.kind = "object"
             /\ e.body.jsonrpc = "2.0"
             /\ e.body.method # None
             /\ e.body.params.kind = "invalid"

\* C6: handle_request answers every event; an exception no inner handler
\* catches (a failing store call, a malformed headers value, a missing
\* body, a request-model validation failure) is answered -32000 at HTTP
\* 500 with the exception's message, the request id read so far and the
\* session id read so far.
C6_TopLevelException ==
    \A c \in Contexts :
        /\ pc[c] = "bound" => ENABLED Handle(c)
        /\ pc[c] = "impl" => ENABLED (\E out \in ImplOutcomes : ImplReturn(c, out))
        /\ Answered(c) =>
              /\ response[c] # NoResponse
              /\ RaisingInput(event[c]) => trace[c].route = "exception"
              /\ trace[c].route = "exception" =>
                    /\ IsError(c, -32000, 500)
                    /\ Len(response[c].body.error.message) = 1
                    /\ response[c].body.error.message[1] # ""
                    /\ response[c].body.id = ResolvedRequestId(event[c])
                    /\ response[c].headers.MCPSessionId =
                          IF HeadersReadable(event[c]) THEN SuppliedSid(event[c]) ELSE None

\* create_session failed during an initialize that carried a session id
\* and a request id; the answer names both.
C6_Witness ==
    /\ pc[MainContext] = "done"
    /\ StoreFailed(MainContext)
    /\ event[MainContext].body.method = "initialize"
    /\ response[MainContext].body.id = "1"
    /\ response[MainContext].headers.MCPSessionId = GhostId

\* C7: when handle_request has returned, on whatever path, the binding of
\* current_session_id is None; while the call runs it is the id the header
\* supplied, or the id just created once initialize has created one.
C7_BindingScopedToCall ==
    \A c \in Contexts :
        /\ pc[c] \in {"done", "idle"} => current_session_id[c] = None
        /\ (Running(c) /\ HeadersReadable(event[c])) =>
              current_session_id[c] =
                  IF trace[c].route = "initialize"
                  THEN response[c].headers.MCPSessionId
                  ELSE SuppliedSid(event[c])
        /\ (Running(c) /\ trace[c].route = "initialize") =>
              /\ Truthy(current_session_id[c])
              /\ current_session_id[c] \notin IssuedIds(trace[c].pre)

\* An initialize that carried another session's id has returned.
C7_Witness ==
    /\ pc[MainContext] = "done"
    /\ trace[MainContext].route = "initialize"
    /\ SuppliedSid(event[MainContext]) # None
    /\ response[MainContext].headers.MCPSessionId # SuppliedSid(event[MainContext])
    /\ current_session_id[MainContext] = None

\* C8: with two calls of handle_request in flight in one process, the id
\* get_session and set_session read inside a call is that call's own, and
\* the binding of a call that is still inside its implementation is its
\* own id, whatever the other call has set or reset meanwhile.
C8_BindingIsPerContext ==
    \A c \in Contexts :
        pc[c] = "impl" =>
            /\ current_session_id[c] = SuppliedSid(event[c])
            /\ call[c].calls > 0 => call[c].seen = SuppliedSid(event[c])

\* One call has read its session id inside a tool while the other call,
\* made with a different session id, has already returned and reset.
C8_Witness ==
    /\ pc["ctx1"] = "impl"
    /\ call["ctx1"].calls > 0
    /\ call["ctx1"].seen = "sid-1"
    /\ pc["ctx2"] = "done"
    /\ SuppliedSid(event["ctx2"]) = "sid-2"
    /\ trace["ctx2"].route = "tools/call"

NoUri(e) ==
    \/ ~ParamsTruthy(e.body.params)
    \/ e.body.params.uri \in {None, ""}

\* C9: a malformed request is refused at the first check it fails, in the
\* order content type, JSON parse, envelope, session, params; nothing
\* registered is invoked and the store is unchanged (no session created).
C9_RejectedAtFirstFailingCheck ==
    \A c \in Contexts :
        (/\ Answered(c)
         /\ HeadersReadable(event[c])
         /\ ~DeleteOfSession(event[c])
         /\ NoException(c)) =>
            LET e == event[c]
                frame == trace[c].invoked = <<>> /\ session_store = trace[c].pre
            IN
            /\ ~JsonContent(e) =>
                  /\ trace[c].route = "content-type"
                  /\ IsError(c, -32700, 400)
                  /\ frame
            /\ (JsonContent(e) /\ e.body.kind = "garbage") =>
                  /\ trace[c].route = "parse"
                  /\ IsError(c, -32700, 400)
                  /\ frame
            /\ (JsonContent(e) /\ e.body.kind \in {"array", "object"}
                  /\ ~(e.body.kind = "object" /\ e.body.jsonrpc = "2.0" /\ e.body.method # None)) =>
                  /\ trace[c].route = "envelope"
                  /\ IsError(c, -32700, 400)
                  /\ frame
            /\ (WellFormed(e) /\ e.body.method = "resources/read" /\ NoUri(e)) =>
                  /\ IF PassedSession(c)
                     THEN trace[c].route = "resources/read" /\ IsError(c, -32602, 400)
                     ELSE trace[c].route = "session" /\ ErrorCode(c) = -32000
                  /\ frame

\* A resources/read without uri and with a made-up session id is refused
\* by the session check, not by the params check.
C9_Witness ==
    /\ pc[MainContext] = "done"
    /\ event[MainContext].body.method = "resources/read"
    /\ WellFormed(event[MainContext])
    /\ NoUri(event[MainContext])
    /\ SuppliedSid(event[MainContext]) = GhostId
    /\ IsError(MainContext, -32000, 404)

\* C10: a request that is not a DELETE with a session id and whose
\* content-type header, under any spelling of its name, is absent or not
\* application/json is answered -32700 at HTTP 400, whatever its body,
\* method and session header.
C10_ContentTypeRequired ==
    \A c \in Contexts :
        (/\ Answered(c)
         /\ HeadersReadable(event[c])
         /\ ~DeleteOfSession(event[c])
         /\ ~JsonContent(event[c])) =>
            /\ IsError(c, -32700, 400)
            /\ response[c].body.error.message = <<"Unsupported Media Type">>

\* An initialize sent as "Content-Type: text/plain" with a live session id
\* is refused and creates nothing.
C10_Witness ==
    /\ pc[MainContext] = "done"
    /\ ClientHeader(event[MainContext], "content-type") = "text/plain"
    /\ event[MainContext].headers[1][1] = "Content-Type"
    /\ HadSession(MainContext)
    /\ event[MainContext].body.method = "initialize"
    /\ IsError(MainContext, -32700, 400)
    /\ session_store = trace[MainContext].pre

\* An application/json request, not a DELETE of a session, whose body is
\* one of the given kinds.
JsonRequestWithBody(c, kinds) ==
    /\ Answered(c)
    /\ HeadersReadable(event[c])
    /\ ~DeleteOfSession(event[c])
    /\ JsonContent(event[c])
    /\ event[c].body.kind \in kinds

ParseError(c) ==
    /\ IsError(c, -32700, 400)
    /\ response[c].body.error.message = <<"Parse error">>

\* C11 (as stated): an application/json request whose body cannot be
\* parsed as JSON, an absent or null body included, is answered -32700
\* "Parse error" at HTTP 400 with a null id.
C11_UnparseableBody ==
    \A c \in Contexts :
        JsonRequestWithBody(c, {"missing", "null", "garbage"}) =>
            (ParseError(c) /\ response[c].body.id = None)

\* C11, the part that holds: a body that is a string json.loads rejects.
C11_InvalidJsonText ==
    \A c \in Contexts :
        JsonRequestWithBody(c, {"garbage"}) =>
            (ParseError(c) /\ response[c].body.id = None)

\* The body passes line 339: an object with jsonrpc "2.0" and a method.
EnvelopeShape(b) == b.kind = "object" /\ b.jsonrpc = "2.0" /\ b.method # None

\* C12: a parseable body that is no object, or whose jsonrpc is not "2.0",
\* or that has no method, is answered -32700 at HTTP 400; the response's
\* id is the body's id when the body is an object and null otherwise.
C12_EnvelopeRejected ==
    \A c \in Contexts :
        (/\ JsonRequestWithBody(c, {"array", "object"})
         /\ ~EnvelopeShape(event[c].body)) =>
            /\ ParseError(c)
            /\ response[c].body.id =
                  IF event[c].body.kind = "object" THEN event[c].body.id ELSE None

\* An object with jsonrpc "1.0" and id "1" was refused under its id.
C12_Witness ==
    /\ pc[MainContext] = "done"
    /\ JsonRequestWithBody(MainContext, {"object"})
    /\ event[MainContext].body.jsonrpc = "1.0"
    /\ event[MainContext].body.id = "1"
    /\ response[MainContext].body.id = "1"
    /\ ErrorCode(MainContext) = -32700

\* The id of the JSON-RPC request in the event's body; null when the body
\* is no object or has no id.
RequestIdOf(e) == IF e.body.kind = "object" THEN e.body.id ELSE None

\* C13 (as stated): every JSON-RPC response of handle_request carries the
\* id of the request it answers, null when the request has none, on every
\* path: content-type, parse, session and top-level error responses too.
C13_ResponseCarriesRequestId ==
    \A c \in Contexts :
        (Answered(c) /\ response[c].body # NoBody) =>
            response[c].body.id = RequestIdOf(event[c])

\* C13, the part that holds: the same once line 330 has accepted the
\* content type, whatever happens to the request afterwards.
C13_IdAfterContentType ==
    \A c \in Contexts :
        JsonRequestWithBody(c, {"missing", "null", "garbage", "array", "object"}) =>
            response[c].body.id = RequestIdOf(event[c])

\* The session id resolved for the request: created by initialize, or
\* supplied and found in the store by lines 359-362; None when neither.
ResolvedSid(c) ==
    CASE trace[c].route = "initialize" ->
             CHOOSE id \in IssuedIds(session_store) \ IssuedIds(trace[c].pre) : TRUE
      [] /\ WellFormed(event[c])
         /\ event[c].body.method # "initialize"
         /\ HadSession(c)
         /\ NoException(c) -> SuppliedSid(event[c])
      [] OTHER -> None

EchoesSession(c) ==
    ResolvedSid(c) # None => response[c].headers.MCPSessionId = ResolvedSid(c)

StandardHeaders(c) ==
    /\ response[c].headers.ContentType = "application/json"
    /\ response[c].headers.MCPVersion = "0.6"

\* C14 (as stated): every response of handle_request, the 204 and 404
\* answers to DELETE included, has Content-Type: application/json and
\* MCP-Version: 0.6, and echoes a resolved session id in MCP-Session-Id.
C14_ResponseHeaders ==
    \A c \in Contexts : Answered(c) => (StandardHeaders(c) /\ EchoesSession(c))

\* C14, the part that holds: the same for every response that is not the
\* answer to a DELETE with a session id.
C14_JsonRpcResponseHeaders ==
    \A c \in Contexts :
        (Answered(c) /\ trace[c].route # "delete") =>
            (StandardHeaders(c) /\ EchoesSession(c))

HasResult(c) == response[c].body.result # NoResult

HasError(c) == response[c].body.error # NoError

\* C15: every JSON-RPC response body of handle_request carries exactly one
\* of result and error: with a result there is no error and the status is
\* 200; with an error there is no result and the status is not 200.
C15_ResultXorError ==
    \A c \in Contexts :
        (Answered(c) /\ response[c].body # NoBody) =>
            /\ HasResult(c) # HasError(c)
            /\ HasResult(c) => Status(c) = 200
            /\ HasError(c) => (Status(c) # 200 /\ ErrorCode(c) # 0)

\* A ping was answered with the empty result, which still counts as a
\* result, at HTTP 200.
C15_Witness ==
    /\ pc[MainContext] = "done"
    /\ event[MainContext].body.method = "ping"
    /\ HasResult(MainContext)
    /\ response[MainContext].body.result.data = <<>>
    /\ ~HasError(MainContext)
    /\ Status(MainContext) = 200

\* The JSON-RPC error codes: the five of the table, the server error the
\* handler uses, and one no table row names.
ErrorCodes == {-32700, -32600, -32601, -32602, -32603, -32000, -32001}

\* The status_code argument: left out (0), or one of the two given.
Overrides == {0, 400, 404}

\* The table as the claim states it.
TableStatus(code) ==
    IF code \in {-32700, -32600, -32602} THEN 400
    ELSE IF code = -32601 THEN 404
    ELSE 500

\* C16: the HTTP status of an error response is the per-call override when
\* one is given, otherwise the table's value for the code (-32700, -32600
\* and -32602 give 400, -32601 gives 404, -32603 and every other code give
\* 500); handle_request gives an override only for the two session errors,
\* 404 for an id the store does not have and 400 for a missing id.
C16_ErrorStatus ==
    /\ \A code \in ErrorCodes, o \in Overrides :
          _create_error_response(code, <<"m">>, None, <<>>, None, o).statusCode =
              IF o # 0 THEN o ELSE TableStatus(code)
    /\ \A c \in Contexts :
          (Answered(c) /\ HasError(c)) =>
              IF trace[c].route = "session"
              THEN /\ ErrorCode(c) = -32000
                   /\ Status(c) = IF SuppliedSid(event[c]) # None THEN 404 ELSE 400
              ELSE Status(c) = TableStatus(ErrorCode(c))

\* A request without session id was refused with -32000 at 400, where the
\* table alone would say 500.
C16_Witness ==
    /\ pc[MainContext] = "done"
    /\ trace[MainContext].route = "session"
    /\ SuppliedSid(event[MainContext]) = None
    /\ ErrorCode(MainContext) = -32000
    /\ Status(MainContext) = 400
    /\ TableStatus(-32000) = 500

\* The listing holds exactly the descriptors of the registry d: one per
\* registered name, each the registry's entry for its name.
ListsExactly(listing, d) ==
    /\ {listing[i].name : i \in DOMAIN listing} = DictKeys(d)
    /\ Len(listing) = Cardinality(DictKeys(d))
    /\ \A i \in DOMAIN listing : listing[i] = DictGet(d, listing[i].name)
    /\ \A i \in DOMAIN d : d[i][2].name = d[i][1]

\* C17: after any sequence of tool and prompt registrations, repeated
\* names included, a session-validated tools/list returns exactly the
\* registered tool descriptors and prompts/list exactly the registered
\* prompt descriptors: one entry per name, none missing, none twice.
C17_ListingsMatchRegistries ==
    \A c \in Contexts :
        pc[c] = "returning" =>
            /\ trace[c].route = "tools/list" =>
                  (IsSuccess(c) /\ ListsExactly(response[c].body.result.data, tools))
            /\ trace[c].route = "prompts/list" =>
                  (IsSuccess(c) /\ ListsExactly(response[c].body.result.data, prompts))

\* Three tools are listed; the entry registered as "memory.store" came
\* first and describes the callable memory_recall.
C17_Witness ==
    /\ pc[MainContext] = "returning"
    /\ trace[MainContext].route = "tools/list"
    /\ Len(response[MainContext].body.result.data) = 3
    /\ DictGet(tool_implementations, "memory.store") = "memory_recall"
    /\ DictGet(tools, "memory.store").inputSchema = InputSchema(FuncDefs["memory_recall"].hints)
    /\ tools[1][1] = "memory.store"

\* The dict holds one entry per key.
OneEntryPerKey(d) == Len(d) = Cardinality(DictKeys(d))

\* A registration can be made: none is refused, whatever is registered.
RegistrationsEnabled ==
    /\ \A n \in RegisteredNames, f \in ToolFuncs : ENABLED RegisterTool(n, f)
    /\ \A n \in RegisteredPromptNames, f \in PromptFuncs : ENABLED RegisterPrompt(n, f)
    /\ \A m \in {None, "text/html"} : ENABLED RegisterResource("res://dynamic", m)
    /\ ENABLED AddResource("res://dynamic")

\* The descriptors and implementations of registry d, impl are those of
\* the callables last registered under each name.
LastRegistered(d, impl, last) ==
    /\ DictKeys(d) = DOMAIN last
    /\ DictKeys(impl) = DOMAIN last
    /\ OneEntryPerKey(d)
    /\ OneEntryPerKey(impl)
    /\ \A k \in DOMAIN last :
          /\ DictGet(impl, k) = last[k]
          /\ DictGet(d, k) = [name        |-> k,
                              description |-> FuncDefs[last[k]].doc,
                              inputSchema |-> InputSchema(FuncDefs[last[k]].hints)]

\* C18: registering a tool, prompt or resource under a name or URI that is
\* registered already replaces descriptor and implementation by the new
\* ones and never raises; each registry holds one entry per name at most,
\* the one of the last registration of that name.
C18_LastRegistrationWins ==
    /\ (\A c \in Contexts : pc[c] \in {"idle", "done"}) => RegistrationsEnabled
    /\ LastRegistered(tools, tool_implementations, history.registered.tools)
    /\ LastRegistered(prompts, prompt_implementations, history.registered.prompts)
    /\ DictKeys(resources) = DOMAIN history.registered.resources
    /\ OneEntryPerKey(resources)
    /\ \A u \in DOMAIN history.registered.resources :
          /\ DictGet(resources, u).uri = u
          /\ DictGet(resources, u).content_func = history.registered.resources[u].content_func
          /\ DictGet(resources, u).mimeType = history.registered.resources[u].mimeType

\* The client was told "memory.store" takes memory_store's parameter; the
\* name has since been registered again and now is memory_recall, with its
\* schema, in the same single entry.
C18_Witness ==
    /\ pc[MainContext] = "done"
    /\ trace[MainContext].route = "tools/list"
    /\ \E i \in DOMAIN response[MainContext].body.result.data :
          /\ response[MainContext].body.result.data[i].name = "memory.store"
          /\ response[MainContext].body.result.data[i].inputSchema.required = <<"content">>
    /\ DictGet(tools, "memory.store").inputSchema.required = <<"context">>
    /\ DictGet(tool_implementations, "memory.store") = "memory_recall"
    /\ history.registered.tools["memory.store"] = "memory_recall"
    /\ OneEntryPerKey(tools)

\* C19: handle_request never modifies the tool, prompt or resource
\* registries: over every step of every request, whatever its outcome,
\* descriptors and implementations stay as they were.
C19_RegistriesReadOnly == [][registries' = registries]_vars

\* A tool was invoked and the request answered, with the server's
\* registrations in place.
C19_Witness ==
    /\ pc[MainContext] = "done"
    /\ trace[MainContext].route = "tools/call"
    /\ trace[MainContext].invoked # <<>>
    /\ IsSuccess(MainContext)
    /\ Registry = ServerRegistry

\* C20: the content normalizer is total: for every value a callable
\* returns (a list at any nesting, a tool result with any number of content
\* elements, zero included, a prompt message, bytes of any length, any
\* other value) _convert_result_to_content returns a content sequence and
\* does not raise.
C20_NormalizerTotal ==
    (helper.name = "_convert_result_to_content" /\ helper.ret # <<>>)
        => helper.ret[1].ok

RECURSIVE HoldsEmptyToolResult(_)

\* The value is, or holds at some depth, a tool result without content.
HoldsEmptyToolResult(v) ==
    \/ v.t = "ToolResult" /\ v.items = <<>>
    \/ v.t = "list" /\ \E i \in DOMAIN v.items : HoldsEmptyToolResult(v.items[i])

\* The part of C20 that holds: the normalizer returns a content sequence
\* for every value that holds no tool result without content, and raises
\* for every value that holds one.
C20_TotalButEmptyToolResult ==
    (helper.name = "_convert_result_to_content" /\ helper.ret # <<>>)
        => (helper.ret[1].ok <=> ~HoldsEmptyToolResult(helper.args[1]))

\* A well-formed ping that carries the id of a session the store holds.
PingInSession(e, st) ==
    /\ WellFormed(e)
    /\ e.body.method = "ping"
    /\ SuppliedSid(e) # None
    /\ SuppliedSid(e) \in DOMAIN st.table

\* C21: a ping request with id N, Content-Type application/json and a
\* valid session is answered with HTTP 200 and a body whose id is N and
\* whose result is the empty object, and no step of the call changes the
\* session store or the registries.
C21_PingAnswered ==
    /\ [](\A c \in Contexts :
            (Answered(c) /\ PingInSession(event[c], trace[c].pre) /\ ~StoreFailed(c)) =>
                /\ Status(c) = 200
                /\ response[c].body.id = event[c].body.id
                /\ response[c].body.result = Result("empty", <<>>)
                /\ response[c].body.error = NoError
                /\ session_store = trace[c].pre)
    /\ [][\A c \in Contexts :
            (pc'[c] # "idle" /\ PingInSession(event'[c], session_store)) =>
                (session_store' = session_store /\ registries' = registries)]_vars

\* A ping with id "1" in a live session was answered and the call is over.
C21_Witness ==
    /\ pc[MainContext] = "done"
    /\ PingInSession(event[MainContext], trace[MainContext].pre)
    /\ event[MainContext].body.id = "1"
    /\ response[MainContext].body.id = "1"
    /\ IsSuccess(MainContext)

\* The value of a base64 digit, 64 for the padding character.
B64Value(ch) ==
    IF ch = "=" THEN 64 ELSE (CHOOSE i \in 1..64 : B64Alphabet[i] = ch) - 1

RECURSIVE b64decode(_)

\* base64.b64decode: four digits give three bytes, fewer where the group
\* is padded.
b64decode(chars) ==
    IF chars = <<>> THEN <<>>
    ELSE LET a == B64Value(chars[1])
             b == B64Value(chars[2])
             c == B64Value(chars[3])
             d == B64Value(chars[4])
             first == <<a * 4 + b \div 16>>
             second == IF c = 64 THEN <<>> ELSE <<(b % 16) * 16 + c \div 4>>
             third == IF d = 64 THEN <<>> ELSE <<(c % 4) * 64 + d>>
         IN first \o second \o third \o b64decode(SubSeq(chars, 5, Len(chars)))

\* bs holds the bytes of sig from position at (counted from zero) on.
HoldsAt(bs, at, sig) ==
    /\ Len(bs) >= at + Len(sig)
    /\ \A i \in 1..Len(sig) : bs[at + i] = sig[i]

\* The mime type C22 gives for a byte string.
ClaimedMimeType(bs) ==
    CASE HoldsAt(bs, 0, <<255, 216, 255>>) -> "image/jpeg"
      [] HoldsAt(bs, 0, <<137, 80, 78, 71, 13, 10, 26, 10>>) -> "image/png"
      [] HoldsAt(bs, 0, <<71, 73, 70, 56, 55, 97>>)
           \/ HoldsAt(bs, 0, <<71, 73, 70, 56, 57, 97>>) -> "image/gif"
      [] HoldsAt(bs, 0, <<82, 73, 70, 70>>) /\ HoldsAt(bs, 8, <<87, 69, 66, 80>>) -> "image/webp"
      [] OTHER -> "application/octet-stream"

\* C22: for every byte string returned by a handler, the normalizer emits
\* exactly one image item whose data base64-decodes to the original bytes
\* and whose mime type is image/jpeg for prefix FF D8 FF, image/png for
\* prefix 89 50 4E 47 0D 0A 1A 0A, image/gif for prefix GIF87a or GIF89a,
\* image/webp for prefix RIFF with bytes 8..11 equal to WEBP, and
\* application/octet-stream otherwise.
C22_BytesBecomeOneImage ==
    (/\ helper.name = "_convert_result_to_content"
     /\ helper.ret # <<>>
     /\ helper.args[1].t = "bytes") =>
        LET bs == helper.args[1].items
            out == helper.ret[1]
        IN /\ out.ok
           /\ Len(out.content) = 1
           /\ out.content[1].type = "image"
           /\ b64decode(out.content[1].data) = bs
           /\ out.content[1].mimeType = ClaimedMimeType(bs)

\* A RIFF container of twelve bytes with WEBP at bytes 8..11 came back as
\* one image/webp item of sixteen base64 digits.
C22_Witness ==
    /\ helper.name = "_convert_result_to_content"
    /\ helper.args = <<Bytes(<<82, 73, 70, 70, 0, 0, 0, 0, 87, 69, 66, 80>>)>>
    /\ helper.ret # <<>>
    /\ helper.ret[1].ok
    /\ helper.ret[1].content[1].mimeType = "image/webp"
    /\ Len(helper.ret[1].content[1].data) = 16

\* The context completes the set of an update_session in this step.
SetRuns(c) == pc[c] = "updating" /\ pc'[c] = "impl"

\* C23: update_session is a get / modify / set cycle that is not atomic.
\* Each set stores the setter's modification of the payload its own get
\* returned, whatever was stored in between, so that the stored payload is
\* always the one written by the set that ran last; and a stored payload
\* changes in no other step, so that none is left that no call wrote.
C23_LastWriteWins ==
    /\ [][\A c \in Contexts :
            SetRuns(c) =>
                session_store'.table[call[c].seen] = Updated(call[c].got, c)]_vars
    /\ [][\A s \in DOMAIN session_store.table :
            (s \notin DOMAIN session_store'.table
               \/ session_store'.table[s] # session_store.table[s]) =>
                \E c \in Contexts : SetRuns(c) /\ call[c].seen = s]_vars

\* A lost update: both calls have run update_session on the same session,
\* which was empty, and the payload holds the key of one of them only.
C23_Witness ==
    /\ \A c \in Contexts : pc[c] = "impl" /\ call[c].calls = 1
    /\ call["ctx1"].seen = call["ctx2"].seen
    /\ call["ctx1"].got = EmptyPayload
    /\ call["ctx2"].got = EmptyPayload
    /\ session_store.table[call["ctx1"].seen] = "{a:1}"

\* The ids create_session handed out while the request was handled.
CreatedIds(c) == IssuedIds(session_store) \ IssuedIds(trace[c].pre)

\* C24: a well-formed initialize request is accepted in every session
\* state (no session header, a valid session id, an unknown id, the id of
\* a deleted session): each time it creates one new session, binds the new
\* id as current until the call ends, and returns a success result whose
\* MCP-Session-Id header is the new id, not the supplied one. A durable
\* store then holds the new session, empty, beside the sessions it held.
C24_InitializeAlwaysAccepted ==
    \A c \in Contexts :
        (/\ Answered(c)
         /\ WellFormed(event[c])
         /\ event[c].body.method = "initialize"
         /\ ~StoreFailed(c)) =>
            /\ Cardinality(CreatedIds(c)) = 1
            /\ \A id \in CreatedIds(c) :
                  /\ id # SuppliedSid(event[c])
                  /\ response[c].headers.MCPSessionId = id
                  /\ pc[c] = "returning" => ContextVar_get(current_session_id, c) = id
                  /\ session_store.kind = "durable" =>
                        session_store.table = trace[c].pre.table @@ (id :> EmptyPayload)
            /\ IsSuccess(c)
            /\ response[c].body.result = InitializeResult
            /\ response[c].body.id = event[c].body.id

\* An initialize that carried the id of a deleted session is about to
\* return a new one.
C24_Witness ==
    /\ pc[MainContext] = "returning"
    /\ WellFormed(event[MainContext])
    /\ event[MainContext].body.method = "initialize"
    /\ WasDeleted(MainContext)
    /\ IsSuccess(MainContext)
    /\ CreatedIds(MainContext) # {}

\* An initialize that carried the id of a live session has returned
\* another id, and the live session is still stored.
C24_WitnessLive ==
    /\ pc[MainContext] = "done"
    /\ WellFormed(event[MainContext])
    /\ event[MainContext].body.method = "initialize"
    /\ HadSession(MainContext)
    /\ IsSuccess(MainContext)
    /\ SuppliedSid(event[MainContext]) \in DOMAIN session_store.table
    /\ response[MainContext].headers.MCPSessionId # SuppliedSid(event[MainContext])

\* The store without the session of the given id.
WithoutSession(st, sid) ==
    [st EXCEPT !.table = [i \in DOMAIN st.table \ {sid} |-> st.table[i]]]

\* The request went down the JSON-RPC pipeline: it was answered by one of
\* the checks or method branches after line 328, with a JSON-RPC response.
InPipeline(c) ==
    /\ trace[c].route \notin {None, "delete"}
    /\ Status(c) \notin {0, 204}
    /\ response[c].headers.ContentType = "application/json"
    /\ response[c].body.jsonrpc = "2.0"

\* C25: a request with HTTP verb DELETE and a non-empty mcp-session-id
\* header is answered with 204 or 404 from the store's delete result alone
\* (204 and the session gone when the store held it, 404 and the store
\* untouched when it did not), whatever the content type, the body and the
\* JSON-RPC method are; a DELETE request without a session id is not a
\* deletion and is answered by the JSON-RPC pipeline as its content type,
\* body, method and session state require.
C25_DeleteBypassesJsonRpc ==
    \A c \in Contexts :
        (Answered(c) /\ HeadersReadable(event[c]) /\ NoException(c)
           /\ event[c].httpMethod = "DELETE") =>
            LET e == event[c]
                sid == SuppliedSid(e)
                pre == trace[c].pre
            IN
            /\ (sid # None /\ sid \in DOMAIN pre.table) =>
                  /\ response[c] = BareResponse(204)
                  /\ session_store = WithoutSession(pre, sid)
            /\ (sid # None /\ sid \notin DOMAIN pre.table) =>
                  /\ response[c] = BareResponse(404)
                  /\ session_store = pre
            /\ sid # None => (trace[c].route = "delete" /\ trace[c].invoked = <<>>)
            /\ sid = None =>
                  /\ InPipeline(c)
                  /\ ~JsonContent(e) => trace[c].route = "content-type"
                  /\ (JsonContent(e) /\ e.body.kind = "garbage") => trace[c].route = "parse"
                  /\ (WellFormed(e) /\ e.body.method = "initialize") =>
                        (IsSuccess(c) /\ CreatedIds(c) # {})
                  /\ (WellFormed(e) /\ e.body.method # "initialize" /\ pre.kind = "durable") =>
                        IsError(c, -32000, 400)
                  /\ (WellFormed(e) /\ e.body.method = "ping" /\ pre.kind = "noop") =>
                        IsSuccess(c)

\* A DELETE sent as text/plain with a body that is not JSON and the id of
\* a live session was answered 204, and the session is gone.
C25_Witness ==
    /\ pc[MainContext] = "done"
    /\ event[MainContext].httpMethod = "DELETE"
    /\ ClientHeader(event[MainContext], "content-type") = "text/plain"
    /\ event[MainContext].body.kind = "garbage"
    /\ HadSession(MainContext)
    /\ response[MainContext] = BareResponse(204)
    /\ SuppliedSid(event[MainContext]) \notin DOMAIN session_store.table

\* A DELETE without a session id that carried a well-formed initialize
\* created a session.
C25_WitnessNoId ==
    /\ pc[MainContext] = "done"
    /\ event[MainContext].httpMethod = "DELETE"
    /\ SuppliedSid(event[MainContext]) = None
    /\ WellFormed(event[MainContext])
    /\ event[MainContext].body.method = "initialize"
    /\ IsSuccess(MainContext)

\* The branches of handle_request that come after the session check.
MethodRoutes ==
    {"tools/list", "tools/call", "prompts/list", "prompts/get", "resources/list",
     "resources/read", "ping", "unknown"}

\* C26: with the no-op session store, a request other than initialize
\* succeeds only when it carries no session id: without an mcp-session-id
\* header (or with an empty one) it is routed to its method handler, and
\* with any session id, the one just returned by initialize included, the
\* store has no session for it and the request is refused with -32000 at
\* 404; DELETE with any id returns 404.
C26_StatelessMode ==
    \A c \in Contexts :
        (/\ Answered(c)
         /\ HeadersReadable(event[c])
         /\ NoException(c)
         /\ trace[c].pre.kind = "noop") =>
            LET e == event[c]
                sid == SuppliedSid(e)
            IN
            /\ DeleteOfSession(e) =>
                  (response[c] = BareResponse(404) /\ session_store = trace[c].pre)
            /\ (WellFormed(e) /\ e.body.method # "initialize") =>
                  /\ sid # None => (IsError(c, -32000, 404) /\ NoHandlerRan(c))
                  /\ sid = None => trace[c].route \in MethodRoutes
                  /\ (sid = None /\ e.body.method \in SessionMethods) =>
                        (IsSuccess(c) /\ trace[c].route = e.body.method)
                  /\ IsSuccess(c) => sid = None

\* With the no-op store, a ping that carried the id the initialize before
\* it had returned was refused.
C26_Witness ==
    /\ pc[MainContext] = "done"
    /\ session_store.kind = "noop"
    /\ WellFormed(event[MainContext])
    /\ event[MainContext].body.method = "ping"
    /\ trace[MainContext].fresh # None
    /\ SuppliedSid(event[MainContext]) = trace[MainContext].fresh
    /\ IsError(MainContext, -32000, 404)

\* With the no-op store, a tools/call without a session id got its result.
C26_WitnessNoId ==
    /\ pc[MainContext] = "done"
    /\ session_store.kind = "noop"
    /\ SuppliedSid(event[MainContext]) = None
    /\ trace[MainContext].route = "tools/call"
    /\ trace[MainContext].invoked # <<>>
    /\ IsSuccess(MainContext)

\* A resources/read that passed the session check, and what it asks for.
ReadRequest(c) ==
    /\ Answered(c)
    /\ WellFormed(event[c])
    /\ event[c].body.method = "resources/read"
    /\ PassedSession(c)
    /\ ~StoreFailed(c)

\* What C27 says of the resources/read that context c has answered.
ReadAnswer(c) ==
    LET e == event[c]
        uri == e.body.params.uri
    IN
    /\ NoUri(e) => (IsError(c, -32602, 400) /\ trace[c].invoked = <<>>)
    /\ (~NoUri(e) /\ uri \notin DictKeys(resources)) =>
          (IsError(c, -32601, 404) /\ trace[c].invoked = <<>>)
    /\ (~NoUri(e) /\ uri \in DictKeys(resources)) =>
          LET res == DictGet(resources, uri) IN
          IF res.content_func # None
          THEN /\ trace[c].invoked = <<res.content_func>>
               /\ call[c].out.kind = "return" =>
                     /\ IsSuccess(c)
                     /\ response[c].body.result =
                           Result("contents",
                                  <<ResourceContent(uri, res.mimeType, str(call[c].out.value))>>)
               /\ call[c].out.kind = "raise" => ErrorCode(c) = -32603
          ELSE /\ trace[c].invoked = <<>>
               /\ IsSuccess(c)
               /\ response[c].body.result =
                     Result("contents", <<ResourceContent(uri, res.mimeType, res.content)>>)

\* C27 (as stated): for a session-validated resources/read, absent params
\* or an absent or empty uri gives -32602 (HTTP 400) before any lookup; a
\* uri not in the registry gives -32601 (HTTP 404) and no content function
\* is invoked; a dynamic resource's content function is invoked exactly
\* once and its result is returned with the resource's declared mime type;
\* a static resource returns its stored content without invoking any
\* function; an exception while reading gives -32603.
C27_ResourcesRead ==
    \A c \in Contexts : ReadRequest(c) => ReadAnswer(c)

\* C27, the part that holds: the same for every uri that is a JSON string
\* (a uri that is a JSON array or object cannot be looked up in the dict).
C27_ReadOfStringUri ==
    \A c \in Contexts :
        (ReadRequest(c) /\ event[c].body.params.uri # Unhashable) => ReadAnswer(c)

\* The methods handle_request has a branch for.
KnownMethods ==
    {"initialize", "tools/list", "tools/call", "prompts/list", "prompts/get",
     "resources/list", "resources/read", "ping"}

\* C28: for a session-validated request, every method name outside
\* {initialize, tools/list, tools/call, prompts/list, prompts/get,
\* resources/list, resources/read, ping} is answered with -32601 "Method
\* not found" at HTTP 404; a tools/call or prompts/get whose params are
\* absent or empty is answered the same and invokes no implementation.
C28_MethodNotFound ==
    \A c \in Contexts :
        (/\ Answered(c)
         /\ WellFormed(event[c])
         /\ PassedSession(c)
         /\ ~StoreFailed(c)) =>
            LET e == event[c] IN
            (\/ e.body.method \notin KnownMethods
             \/ /\ e.body.method \in {"tools/call", "prompts/get"}
                /\ (e.body.params = NoParams \/ e.body.params = Params(None, None, None))) =>
                /\ IsError(c, -32601, 404)
                /\ response[c].body.error.message = <<"Method not found: ", e.body.method>>
                /\ response[c].body.id = e.body.id
                /\ trace[c].invoked = <<>>
                /\ session_store = trace[c].pre

\* A tools/call with params {} in a live session was answered "Method not
\* found" and no tool ran.
C28_Witness ==
    /\ pc[MainContext] = "done"
    /\ HadSession(MainContext)
    /\ WellFormed(event[MainContext])
    /\ event[MainContext].body.method = "tools/call"
    /\ event[MainContext].body.params = Params(None, None, None)
    /\ response[MainContext].body.error.message = <<"Method not found: ", "tools/call">>
    /\ IsError(MainContext, -32601, 404)
    /\ trace[MainContext].invoked = <<>>

\* The declared type of the callable's parameter of that name is an Enum.
DeclaredEnum(func, arg_name) ==
    \E i \in DOMAIN FuncDefs[func].hints :
        FuncDefs[func].hints[i] = <<arg_name, [k |-> "enum"]>>

\* The value is the value of a member of the Enum.
MemberValue(value) == value.t = "str" /\ value.v \in EnumValues

\* C29: in tools/call, each supplied argument whose declared parameter
\* type is an enumeration is replaced by the enum member with that value
\* and every other argument is passed unchanged, under the same argument
\* name; when a supplied value is not a member value of the enum, the tool
\* implementation is not invoked and the response is -32603.
C29_EnumArguments ==
    \A c \in Contexts :
        (/\ Answered(c)
         /\ WellFormed(event[c])
         /\ event[c].body.method = "tools/call"
         /\ PassedSession(c)
         /\ ~StoreFailed(c)
         /\ event[c].body.params.arguments = "dict"
         /\ event[c].body.params.name \in DictKeys(tools)) =>
            LET supplied == event[c].body.params.values
                func == DictGet(tool_implementations, event[c].body.params.name)
            IN IF \E i \in DOMAIN supplied :
                     DeclaredEnum(func, supplied[i][1]) /\ ~MemberValue(supplied[i][2])
               THEN trace[c].invoked = <<>> /\ ErrorCode(c) = -32603
               ELSE /\ trace[c].invoked = <<func>>
                    /\ DOMAIN call[c].args = DOMAIN supplied
                    /\ \A i \in DOMAIN supplied :
                          /\ call[c].args[i][1] = supplied[i][1]
                          /\ call[c].args[i][2] =
                                IF DeclaredEnum(func, supplied[i][1])
                                THEN [t |-> "enum", v |-> supplied[i][2].v, items |-> <<>>]
                                ELSE supplied[i][2]

\* set_mode was called with the member of value "slow" for mode and with
\* the string "fast" for note, and returned.
C29_Witness ==
    /\ pc[MainContext] = "done"
    /\ event[MainContext].body.params.values = <<<<"mode", Str("slow")>>, <<"note", Str("fast")>>>>
    /\ call[MainContext].args =
          <<<<"mode", [t |-> "enum", v |-> "slow", items |-> <<>>]>>, <<"note", Str("fast")>>>>
    /\ trace[MainContext].invoked = <<"set_mode">>
    /\ IsSuccess(MainContext)

\* A call whose note is a member value but whose mode is not was refused
\* before set_mode ran.
C29_WitnessNotAMember ==
    /\ pc[MainContext] = "done"
    /\ event[MainContext].body.params.values = <<<<"mode", Str("turbo")>>, <<"note", Str("fast")>>>>
    /\ trace[MainContext].invoked = <<>>
    /\ IsError(MainContext, -32603, 500)

RECURSIVE Concatenated(_)

\* The sequences of outs, one after the other.
Concatenated(outs) ==
    IF outs = <<>> THEN <<>>
    ELSE Concatenated(SubSeq(outs, 1, Len(outs) - 1)) \o outs[Len(outs)]

\* C30: for a list value, the normalizer's output is the concatenation, in
\* list order, of the normalizer's output for each element (a list of
\* outputs flattened by one level, where an element that is itself a list
\* has been normalized the same way); an empty list gives an empty content
\* sequence, and the relative order of items is preserved.
C30_ListsConcatenate ==
    (/\ helper.name = "_convert_result_to_content"
     /\ helper.ret # <<>>
     /\ helper.args[1].t = "list") =>
        LET items == helper.args[1].items
            each == [i \in DOMAIN items |-> _convert_result_to_content(items[i])]
        IN (\A i \in DOMAIN items : each[i].ok) =>
              /\ helper.ret[1].ok
              /\ helper.ret[1].content =
                    Concatenated([i \in DOMAIN items |-> each[i].content])
              /\ items = <<>> => helper.ret[1].content = <<>>

\* A list of a list and a prompt message came back as the text item of
\* the inner list's string followed by the serialized message.
C30_Witness ==
    /\ helper.name = "_convert_result_to_content"
    /\ helper.args =
          <<List(<<List(<<Str("remembered")>>), PromptMessage("user", "decide")>>)>>
    /\ helper.ret # <<>>
    /\ helper.ret[1].ok
    /\ Len(helper.ret[1].content) = 2
    /\ helper.ret[1].content[1] = TextContent("remembered")

\* The string form Python gives each value that is neither a list, a tool
\* result, a prompt message nor bytes.
StringForms ==
    <<<<Str("remembered"), "remembered">>, <<Str(""), "">>,
      <<Integer(0), "0">>, <<Integer(42), "42">>, <<Integer(-7), "-7">>,
      <<Bool(TRUE), "True">>, <<Bool(FALSE), "False">>,
      <<[Str("") EXCEPT !.t = "NoneType"], "None">>>>

C31_WitnessInt ==
    /\ helper.name = "_convert_result_to_content"
    /\ helper.args = <<Integer(-7)>>
    /\ helper.ret = <<Converted(<<TextContent("-7")>>)>>

\* A prompt message came back as one item, the message itself.
C31_WitnessPromptMessage ==
    /\ helper.name = "_convert_result_to_content"
    /\ helper.args = <<PromptMessage("user", "decide")>>
    /\ helper.ret # <<>>
    /\ helper.ret[1].ok
    /\ Len(helper.ret[1].content) = 1

\* C32: for every callable and every declared parameter type, the input
\* schema stored when the callable is registered as a prompt equals the
\* input schema stored when the same callable is registered as a tool.
C32_PromptSchemaIsToolSchema ==
    \A t \in DictKeys(tools), p \in DictKeys(prompts) :
        DictGet(tool_implementations, t) = DictGet(prompt_implementations, p) =>
            DictGet(prompts, p).inputSchema = DictGet(tools, t).inputSchema

\* The callables all of whose parameters are declared int, float, bool or
\* str, or of a type that is neither an enumeration, a mapping nor a
\* sequence.
PlainlyTyped == {"scale", "memory_decide"}

\* For the plain types and the fallback the two schemas are equal; for a
\* parameter declared as an enumeration, a typing.Dict, a typing.List or a
\* parameterized dict or list the prompt's schema is {"type": "string"}
\* and differs from the tool's.
C32_PlainSchemasAgree ==
    \A t \in DictKeys(tools), p \in DictKeys(prompts) :
        LET f == DictGet(tool_implementations, t)
            ts == DictGet(tools, t).inputSchema
            ps == DictGet(prompts, p).inputSchema
        IN f = DictGet(prompt_implementations, p) =>
              /\ ps.required = ts.required
              /\ f \in PlainlyTyped => ps = ts
              /\ \A i \in DOMAIN ps.properties :
                    /\ ps.properties[i][1] = ts.properties[i][1]
                    /\ ps.properties[i][2] # ts.properties[i][2] =>
                          /\ ps.properties[i][2] = [type |-> "string"]
                          /\ ps.properties[i][1] \in
                                {"mode", "table", "rows", "any_dict", "any_list", "names"}

\* configure is registered as a tool and as a prompt, and the schemas of
\* its parameter mode differ.
C32_SchemasDiffer ==
    /\ "configure" \in DictKeys(tools) \cap DictKeys(prompts)
    /\ DictGet(tool_implementations, "configure") = "configure"
    /\ DictGet(prompt_implementations, "configure") = "configure"
    /\ DictGet(tools, "configure").inputSchema.properties[1][2] =
          [type |-> "string", enum |-> <<"fast", "slow">>]
    /\ DictGet(prompts, "configure").inputSchema.properties[1][2] = [type |-> "string"]

\* The schemas the type table of 4.1 gives the declared parameters of each
\* callable, in declaration order and without the return type.
TableSchemas ==
    [scale |-> << <<"n", [type |-> "integer"]>>,
                  <<"x", [type |-> "number"]>>,
                  <<"flag", [type |-> "boolean"]>>,
                  <<"label", [type |-> "string"]>> >>,
     configure |-> << <<"mode", [type |-> "string", enum |-> <<"fast", "slow">>]>>,
                      <<"table", [type |-> "object",
                                  additionalProperties |-> [type |-> "integer"]]>>,
                      <<"rows", [type |-> "array",
                                 items |-> [type |-> "object",
                                            additionalProperties |->
                                                [type |-> "string",
                                                 enum |-> <<"fast", "slow">>]]]>> >>,
     describe |-> << <<"bare", [type |-> "string"]>>,
                     <<"any_dict", [type |-> "object",
                                    additionalProperties |-> [type |-> "string"]]>>,
                     <<"any_list", [type |-> "array", items |-> [type |-> "string"]]>>,
                     <<"names", [type |-> "array", items |-> [type |-> "string"]]>>,
                     <<"other", [type |-> "string"]>> >>,
     memory_decide |-> <<>>]

\* C33: for every registered tool, the input schema is an object schema
\* whose properties are exactly the callable's declared parameters (return
\* type excluded), whose required list holds every one of them exactly
\* once in declaration order, and whose per-parameter schema follows the
\* recursive type table.
C33_ToolSchemaFollowsTable ==
    \A t \in DictKeys(tools) :
        LET f == DictGet(tool_implementations, t)
            schema == DictGet(tools, t).inputSchema
        IN /\ DOMAIN schema = {"type", "properties", "required"}
           /\ schema.type = "object"
           /\ schema.properties = TableSchemas[f]
           /\ Len(schema.required) = Len(TableSchemas[f])
           /\ \A i \in DOMAIN schema.required : schema.required[i] = TableSchemas[f][i][1]
           /\ \A i, j \in DOMAIN schema.required :
                 schema.required[i] = schema.required[j] => i = j

\* The callable configure is registered as a tool under its own name, and
\* the schema of its third parameter nests an enumeration in a mapping in
\* a sequence.
C33_Witness ==
    /\ "configure" \in DictKeys(tools)
    /\ DictGet(tool_implementations, "configure") = "configure"
    /\ Len(DictGet(tools, "configure").inputSchema.required) = 3
    /\ DictGet(tools, "configure").inputSchema.properties[3][2].items.additionalProperties.enum
          = <<"fast", "slow">>

\* The callable scale, which declares a return type, is registered as a
\* tool under another name, and its schema has its four parameters.
C33_WitnessReturnExcluded ==
    /\ "configure" \in DictKeys(tools)
    /\ DictGet(tool_implementations, "configure") = "scale"
    /\ DictGet(tools, "configure").inputSchema.required = <<"n", "x", "flag", "label">>

\* A well-formed request other than initialize reached a handler with a
\* durable store and without the id of a live session: with none, with
\* one the store never issued, or with one that was deleted.
WithoutLiveSession(c) ==
    /\ pc[c] # "idle"
    /\ WellFormed(event[c])
    /\ event[c].body.method # "initialize"
    /\ trace[c].pre.kind = "durable"
    /\ ~HadSession(c)

\* C34: session validation precedes method routing. With a durable store,
\* a request whose session id is absent, unknown or deleted never has a
\* tool, prompt or resource implementation invoked, and is answered
\* -32000, never -32601, whether its method or its tool name is known or
\* not.
C34_SessionBeforeRouting ==
    \A c \in Contexts :
        WithoutLiveSession(c) =>
            /\ pc[c] # "impl"
            /\ call[c].kind = None
            /\ trace[c].invoked = <<>>
            /\ Answered(c) =>
                  /\ ErrorCode(c) = -32000
                  /\ response[c].body.result.kind = None
                  /\ trace[c].route \in {"session", "exception"}

\* A request for a method no branch handles, carrying an id the store
\* never issued, is answered -32000 at 404.
C34_Witness ==
    /\ pc[MainContext] = "done"
    /\ WithoutLiveSession(MainContext)
    /\ SuppliedSid(event[MainContext]) = GhostId
    /\ event[MainContext].body.method \notin
          {"tools/list", "tools/call", "prompts/list", "prompts/get",
           "resources/list", "resources/read", "ping"}
    /\ IsError(MainContext, -32000, 404)

\* A tools/call of an unregistered name without a session id is answered
\* -32000 at 400.
C34_WitnessUnknownTool ==
    /\ pc[MainContext] = "done"
    /\ WithoutLiveSession(MainContext)
    /\ SuppliedSid(event[MainContext]) = None
    /\ event[MainContext].body.method = "tools/call"
    /\ ParamsTruthy(event[MainContext].body.params)
    /\ event[MainContext].body.params.name \notin DictKeys(tools)
    /\ IsError(MainContext, -32000, 400)

\* A tools/call of a registered tool carrying a deleted id is refused.
C34_WitnessDeleted ==
    /\ pc[MainContext] = "done"
    /\ WithoutLiveSession(MainContext)
    /\ WasDeleted(MainContext)
    /\ event[MainContext].body.method = "tools/call"
    /\ event[MainContext].body.params.name \in DictKeys(tools)
    /\ IsError(MainContext, -32000, 404)

\* The step is handle_request answering an initialize with success.
InitializeSucceeds(c) ==
    /\ pc[c] = "bound"
    /\ ~DeleteOfSession(event[c])
    /\ event[c].body.method = "initialize"
    /\ pc'[c] = "returning"
    /\ trace'[c].route = "initialize"
    /\ response'[c].statusCode = 200

\* The step is handle_request answering a DELETE with 204.
DeleteSucceeds(c) ==
    /\ pc[c] = "bound"
    /\ DeleteOfSession(event[c])
    /\ pc'[c] = "returning"
    /\ response'[c].statusCode = 204

\* C35: only initialize creates sessions and only DELETE removes them. A
\* step that adds a session is a successful initialize, and a successful
\* initialize on a store that keeps sessions adds exactly one and leaves
\* every session there was, one named in the request header included,
\* with its payload; a step that removes a session is a DELETE answered
\* 204, which removes the one it names; every other step of the
\* dispatcher (list, ping, errors, rejected requests, calls) leaves the
\* set of sessions as it was.
C35_SessionsCreatedAndRemoved ==
    [][LET old == DOMAIN session_store.table
           new == DOMAIN session_store'.table
       IN /\ new \ old # {} => \E c \in Contexts : InitializeSucceeds(c)
          /\ old \ new # {} =>
                \E c \in Contexts :
                    /\ DeleteSucceeds(c)
                    /\ old \ new = {SuppliedSid(event[c])}
                    /\ \A s \in new : session_store'.table[s] = session_store.table[s]
          /\ \A c \in Contexts :
                InitializeSucceeds(c) =>
                    /\ old \subseteq new
                    /\ \A s \in old : session_store'.table[s] = session_store.table[s]
                    /\ session_store.kind = "durable" => Cardinality(new \ old) = 1
                    /\ session_store.kind = "noop" => new = old
          /\ (\A c \in Contexts : ~InitializeSucceeds(c) /\ ~DeleteSucceeds(c)) => new = old
      ]_vars

\* An initialize that named a live session holding a payload is about to
\* return: the store holds one session more, and the named session has
\* its payload still.
C35_Witness ==
    /\ pc[MainContext] = "returning"
    /\ trace[MainContext].route = "initialize"
    /\ HadSession(MainContext)
    /\ trace[MainContext].pre.table[SuppliedSid(event[MainContext])] # EmptyPayload
    /\ session_store.table[SuppliedSid(event[MainContext])]
          = trace[MainContext].pre.table[SuppliedSid(event[MainContext])]
    /\ Cardinality(DOMAIN session_store.table)
          = Cardinality(DOMAIN trace[MainContext].pre.table) + 1

\* A request of the wrong content type that named a live session was
\* rejected, and the session is still there.
C35_WitnessRejected ==
    /\ pc[MainContext] = "done"
    /\ trace[MainContext].route = "content-type"
    /\ HadSession(MainContext)
    /\ SuppliedSid(event[MainContext]) \in DOMAIN session_store.table

\* The callable running in context c calls a session helper in this step,
\* or its update_session goes on from its get to its set.
HelperStep(c) ==
    /\ pc[c] \in {"impl", "updating"}
    /\ pc'[c] \in {"impl", "updating"}
    /\ call'[c] # call[c]

\* The helper that ran in this step read the store.
ReadsStore(c) == HelperStep(c) /\ pc[c] = "impl" /\ call'[c].store_calls = <<"get_session">>

\* The helper that ran in this step wrote to the store.
WritesStore(c) ==
    /\ HelperStep(c)
    /\ call'[c].store_calls # <<>>
    /\ call'[c].store_calls[Len(call'[c].store_calls)] = "update_session"

\* C36: while a tool or prompt implementation runs inside a request whose
\* session was validated, get_session returns the payload of the session
\* named in that request's header (absent once that session is deleted),
\* and set_session and update_session write only to that session: a
\* session's payload changes in no step but a write of a call whose header
\* names it.
C36_HelpersUseTheRequestsSession ==
    [][/\ \A c \in Contexts :
             (HelperStep(c) /\ SuppliedSid(event[c]) # None) =>
                 LET sid == SuppliedSid(event[c]) IN
                 /\ call'[c].seen = sid
                 /\ ReadsStore(c) =>
                       call'[c].got = IF sid \in DOMAIN session_store.table
                                      THEN session_store.table[sid]
                                      ELSE None
                 /\ \A s \in DOMAIN session_store.table \ {sid} :
                       /\ s \in DOMAIN session_store'.table
                       /\ session_store'.table[s] = session_store.table[s]
       /\ \A s \in DOMAIN session_store.table \cap DOMAIN session_store'.table :
             session_store'.table[s] # session_store.table[s] =>
                 \E c \in Contexts : WritesStore(c) /\ SuppliedSid(event[c]) = s
      ]_vars

\* The second context's tool has written to its session, the second of
\* the store, while the first context's call runs in the first session,
\* which is as it was.
C36_Witness ==
    /\ pc["ctx1"] = "impl"
    /\ pc["ctx2"] = "impl"
    /\ SuppliedSid(event["ctx1"]) = "sid-1"
    /\ SuppliedSid(event["ctx2"]) = "sid-2"
    /\ call["ctx2"].ret = <<"set_session", "True">>
    /\ call["ctx2"].seen = "sid-2"
    /\ session_store.table["sid-2"] = "{b:1}"
    /\ session_store.table["sid-1"] = EmptyPayload

\* A prompt's update_session has read the payload another call wrote to
\* the session both name.
C36_WitnessRead ==
    /\ pc["ctx1"] = "updating"
    /\ call["ctx1"].kind = "prompts/get"
    /\ call["ctx1"].got = "{b:1}"
    /\ call["ctx1"].seen = SuppliedSid(event["ctx1"])
    /\ SuppliedSid(event["ctx2"]) = SuppliedSid(event["ctx1"])

\* C37: when no session id is bound to the current context, get_session
\* returns absent and set_session and update_session return false without
\* calling the session store; when an id is bound but the store has no
\* session for it, update_session returns false, does not invoke the
\* updater function and does not write to the store.
C37_HelpersWithoutSession ==
    [][\A c \in Contexts :
          (HelperStep(c) /\ pc[c] = "impl") =>
              LET sid == current_session_id[c]
                  bound == sid # None /\ sid # ""
                  held == /\ bound
                          /\ session_store.kind = "durable"
                          /\ sid \in DOMAIN session_store.table
                  update == call'[c].ret = <<>> \/ call'[c].ret[1] = "update_session"
              IN /\ ~bound =>
                       /\ call'[c].ret \in {<<"get_session", "None">>,
                                            <<"set_session", "False">>,
                                            <<"update_session", "False">>}
                       /\ call'[c].store_calls = <<>>
                       /\ session_store' = session_store
                       /\ pc'[c] = "impl"
                 /\ (bound /\ ~held /\ update) =>
                       /\ call'[c].ret = <<"update_session", "False">>
                       /\ call'[c].store_calls = <<"get_session">>
                       /\ session_store' = session_store
                       /\ pc'[c] = "impl"
      ]_vars

\* With the no-op store and no session id, a tool's update_session has
\* returned False and the store was not called.
C37_Witness ==
    /\ session_store.kind = "noop"
    /\ pc[MainContext] = "impl"
    /\ current_session_id[MainContext] = None
    /\ call[MainContext].ret = <<"update_session", "False">>
    /\ call[MainContext].store_calls = <<>>

\* The session of a running call was deleted by another request, and the
\* call's update_session has returned False after one get on the store.
C37_WitnessDeleted ==
    /\ pc["ctx1"] = "impl"
    /\ current_session_id["ctx1"] = "sid-1"
    /\ "sid-1" \notin DOMAIN session_store.table
    /\ call["ctx1"].ret = <<"update_session", "False">>
    /\ call["ctx1"].store_calls = <<"get_session">>

\* With no session id bound, get_session has returned None.
C37_WitnessGet ==
    /\ \E c \in Contexts :
          /\ pc[c] = "impl"
          /\ current_session_id[c] = None
          /\ call[c].ret = <<"get_session", "None">>
          /\ call[c].store_calls = <<>>

\* C38: after any sequence of registrations, the key set of the tool
\* descriptor map equals the key set of the tool implementation map, and
\* likewise for prompts, so that a name that passes the 'is registered'
\* check of tools/call or prompts/get has an implementation to invoke.
C38_DescriptorsHaveImplementations ==
    /\ DictKeys(tools) = DictKeys(tool_implementations)
    /\ DictKeys(prompts) = DictKeys(prompt_implementations)
    /\ \A name \in DictKeys(tools) :
          \E i \in DOMAIN tool_implementations :
              /\ tool_implementations[i][1] = name
              /\ tool_implementations[i][2] \in DOMAIN FuncDefs
    /\ \A name \in DictKeys(prompts) :
          \E i \in DOMAIN prompt_implementations :
              /\ prompt_implementations[i][1] = name
              /\ prompt_implementations[i][2] \in DOMAIN FuncDefs

\* Four tools and three prompts are registered, the name "configure"
\* having been given to another callable in each registry.
C38_Witness ==
    /\ Len(tools) = 4
    /\ Len(prompts) = 3
    /\ DictGet(tool_implementations, "configure") = "describe"
    /\ DictGet(prompt_implementations, "configure") = "scale"
    /\ DictKeys(tools) = DictKeys(tool_implementations)

====
